---- MODULE Spec2Model ----
(***************************************************************************)
(* The orchestration loop of the browser agent (src/agent.py, run_agent)   *)
(* and the outcomes the browser driver (src/mcp_server.py) hands back to   *)
(* it.  The loop is sequential: the state only changes when one of its     *)
(* awaits returns (console input, the model's reply, the driver's reply).  *)
(* One action is the code from the return of an await to the next await;   *)
(* the value the await returned is its input and is kept in line, resp or  *)
(* call_result until the loop moves on to the next tool call or request.   *)
(***************************************************************************)
EXTENDS Naturals, Integers, Sequences, FiniteSets, TLC

\* ------------------------------------------------------------------------
\* Bounds of the model
\* ------------------------------------------------------------------------
\* max_steps of run_agent (50 in the source), reduced to keep the state space finite and small
max_steps == 2
\* the tabs one click opens at most
MaxPopups == 2
\* longest tool_calls list of one decision
MaxCalls == 2
\* the number of elements of a page at most
MaxElems == 3

\* ------------------------------------------------------------------------
\* Program constants.  String literals of the source that are written in
\* Cyrillic appear transliterated to ASCII (gotovo, da, net, udalit, ...).
\* ------------------------------------------------------------------------
MAX_SAME_ACTION_RETRIES == 3

\* _env_bool("AGENT_HANDOVER_AFTER_RETRIES", default=True): the default
HANDOVER_AFTER_RETRIES == TRUE

READY_TRIGGERS == {"gotovo", "done", "ok", "prodolzhaj", "go", "yes", "da"}

NoLine == "<no line>"

\* words of DANGEROUS_PATTERNS that match on their own (\b...\b)
DangerousWords == {"udalit", "delete", "oplatit", "pay"}
\* two-word alternatives of DANGEROUS_PATTERNS ("udalit" and "delete" alone
\* already cover "udalit navsegda" and "delete permanently")
DangerousPairs == {<<"podtverdit", "oplatu">>}

\* ------------------------------------------------------------------------
\* Text helpers: str.strip().lower() and word splitting over the texts the
\* model uses
\* ------------------------------------------------------------------------
StripLower(s) ==
  CASE s = "Da" -> "da"
    [] s = " Done " -> "done"
    [] s = "Quit" -> "quit"
    [] OTHER -> s

\* the lower-cased words of a click text (re.IGNORECASE, \b word boundaries)
LowerWords(text) ==
  CASE text = "Kupit" -> <<"kupit">>
    [] text = "Udalit" -> <<"udalit">>
    [] text = "Podtverdit oplatu" -> <<"podtverdit", "oplatu">>
    [] text = "Podtverdit" -> <<"podtverdit">>
    [] OTHER -> <<>>

\* DANGEROUS_PATTERNS.search(text)
DANGEROUS_PATTERNS(text) ==
  LET w == LowerWords(text) IN
    \/ \E k \in 1..Len(w) : w[k] \in DangerousWords
    \/ \E k \in 1..(Len(w) - 1) : <<w[k], w[k + 1]>> \in DangerousPairs

\* (mutant) _confirm that takes every line but an explicit no for a yes
ConfirmLax(ln) == StripLower(ln) \notin {"n", "no", "n_ru", "net"}

\* _confirm: True only for an explicit yes
Confirm(ln) ==
  IF StripLower(ln) \in {"n", "no", "n_ru", "net"} THEN FALSE
  ELSE StripLower(ln) \in {"y", "yes", "d_ru", "da"}

\* the readiness test of _do_wait_for_user and _do_handover_to_user
IsReady(ln) == StripLower(ln) \in READY_TRIGGERS

\* ------------------------------------------------------------------------
\* Dictionaries (Python dict): functions with a growing domain
\* ------------------------------------------------------------------------
EmptyDict == [k \in {} |-> 0]

\* d.get(k, dflt)
Get(d, k, dflt) == IF k \in DOMAIN d THEN d[k] ELSE dflt

\* d[k] = v
Put(d, k, v) == [x \in (DOMAIN d) \cup {k} |-> IF x = k THEN v ELSE d[x]]

\* ------------------------------------------------------------------------
\* JSON arguments of a tool call.  A JSON object text is the sequence of its
\* <<key, value>> members in the order the model wrote them; BadJson is a
\* text json.loads rejects.
\* ------------------------------------------------------------------------
BadJson == <<<<"{", "">>>>

RECURSIVE LoadMembers(_)
LoadMembers(js) ==
  IF js = <<>> THEN EmptyDict
  ELSE LET rest == LoadMembers(SubSeq(js, 1, Len(js) - 1))
           m == js[Len(js)]
       IN Put(rest, m[1], m[2])

\* json.loads(tc.function.arguments or "{}"), {} on JSONDecodeError
json_loads(js) == IF js = BadJson THEN EmptyDict ELSE LoadMembers(js)

\* the argument names of the tools, in sort_keys order
SortedKeys == <<"exact", "selector", "success", "summary", "text", "url">>

\* json.dumps(args, sort_keys=True): the members in key order
json_dumps(args) ==
  LET present == SelectSeq(SortedKeys, LAMBDA k : k \in DOMAIN args)
  IN [n \in 1..Len(present) |-> <<present[n], args[present[n]]>>]

\* (mutant) a key made of the tool name alone
ActionKeyNameOnly(name, args) == <<name, <<>>>>

\* action_key = "%s|%s" % (name, json.dumps(args, sort_keys=True))
ActionKey(name, args) == <<name, json_dumps(args)>>

\* args.get(k) is truthy
Truthy(args, k) == k \in DOMAIN args /\ args[k] # ""

\* ------------------------------------------------------------------------
\* Tool results.  A payload is a Python dict; only the members the loop
\* reads (success, error, ambiguous, page_navigated) and the ones that tell
\* the outcomes apart are kept.
\* ------------------------------------------------------------------------
NoPayload == [none |-> TRUE]

ErrNotFound == "Element ne najden"
ErrAmbiguous == "Neodnoznachnyj zapros: najdeno 3 elementov s tekstom"
ErrDeclined == "Polzovatel otklonil dejstvie"
ErrRepeated == "Dejstvie povtoryali 3 raz bez uspeha"
ErrTransport == "Connection closed"
ErrPageFetch == "Page.evaluate: Target closed"
ErrUnknownTool == "Unknown tool"
SkipMsg == "Stranica izmenilas posle predydushchego dejstviya"
ManualNote == "Polzovatel zavershil dejstvie vruchnuyu"
ReadyNote == "Polzovatel gotov. Prodolzhayu."

\* "neodnoznachn" in err.lower()
HasAmbiguousMarker(err) == err \in {ErrAmbiguous}

\* outcomes of BrowserMCPServer._click_element for a text click
ClickResults ==
  { [success |-> TRUE],
    [success |-> TRUE, page_navigated |-> TRUE],
    [success |-> FALSE, error |-> ErrNotFound],
    [success |-> FALSE, error |-> ErrAmbiguous] }

\* outcomes of BrowserMCPServer._get_page_content
PageContentResults ==
  { [success |-> TRUE, content |-> "page"],
    [success |-> FALSE, error |-> ErrPageFetch] }

\* outcomes of BrowserMCPServer._navigate for a url: loaded, or goto raised
NavigateResults ==
  { [success |-> TRUE, url |-> "other", page_navigated |-> TRUE],
    [success |-> FALSE, error |-> ErrPageFetch, url |-> "other"] }

\* outcomes of BrowserMCPServer._go_back: the page before is shown, there
\* was none, or go_back raised
GoBackResults ==
  { [success |-> TRUE, url |-> "other"],
    [success |-> TRUE, url |-> "same"],
    [success |-> FALSE, error |-> ErrPageFetch] }

NoStructured == [some |-> FALSE]

\* one TextContent block carrying json.dumps(result)
JsonBlock(result) == [type |-> "text", valid |-> TRUE, value |-> result]

\* the CallToolResult the server's _call_tool handler builds for a request
ServerResults(name) ==
  IF name = "click_element"
    THEN { [kind |-> "result", content |-> <<JsonBlock(r)>>,
            structuredContent |-> NoStructured, isError |-> FALSE] : r \in ClickResults }
  ELSE IF name = "get_page_content"
    THEN { [kind |-> "result", content |-> <<JsonBlock(r)>>,
            structuredContent |-> NoStructured, isError |-> FALSE] : r \in PageContentResults }
  ELSE IF name = "navigate"
    THEN { [kind |-> "result", content |-> <<JsonBlock(r)>>,
            structuredContent |-> NoStructured, isError |-> FALSE] : r \in NavigateResults }
  ELSE IF name = "go_back"
    THEN { [kind |-> "result", content |-> <<JsonBlock(r)>>,
            structuredContent |-> NoStructured, isError |-> FALSE] : r \in GoBackResults }
  ELSE { [kind |-> "result", content |-> <<JsonBlock([error |-> ErrUnknownTool])>>,
          structuredContent |-> NoStructured, isError |-> TRUE] }

\* the first text block of content, if any (the loops "for blk in content")
TextBlocks(content) == SelectSeq(content, LAMBDA b : b.type = "text")

\* _parse_tool_result(content, structured, is_error)
parse_tool_result(content, structured, is_error) ==
  LET blks == TextBlocks(content) IN
  IF is_error
    THEN IF blks = <<>> THEN [success |-> FALSE, error |-> "Unknown tool error"]
         ELSE IF blks[1].valid THEN blks[1].value
         ELSE [success |-> FALSE, error |-> blks[1].value]
  ELSE IF structured.some THEN structured.value
  ELSE IF blks = <<>> THEN [success |-> TRUE]
  ELSE IF blks[1].valid THEN blks[1].value
  ELSE [result |-> blks[1].value]

\* the payload of the manual-handover result of _do_handover_to_user
HandoverPayload == [success |-> TRUE, message |-> ManualNote]

\* the payload of _do_wait_for_user
WaitPayload == [success |-> TRUE, message |-> ReadyNote]

\* the payload a declined confirmation produces
DeclinedPayload == [success |-> FALSE, error |-> ErrDeclined]

\* the payload of a request refused because handover is switched off
RepeatedPayload == [success |-> FALSE, error |-> ErrRepeated]

\* the payload recorded when session.call_tool raises
ExceptionPayload == [success |-> FALSE, error |-> ErrTransport]

\* the payload of the calls skipped after a navigation
payload_skip == [success |-> FALSE, error |-> SkipMsg, page_changed_skip |-> TRUE]

\* the payload of finish_task
FinishPayload(args) ==
  LET summary == IF Truthy(args, "summary") THEN args["summary"] ELSE "Zadacha zavershena."
      success == IF Get(args, "success", "") \in {"true", "false"}
                   THEN args["success"] = "true" ELSE TRUE
  IN [success |-> success, message |-> "Zadacha zavershena.", summary |-> summary]

\* ------------------------------------------------------------------------
\* The requests and decisions the language model may produce
\* ------------------------------------------------------------------------
CallShapes ==
  { [name |-> "click_element", arguments |-> <<<<"text", "Kupit">>>>],
    [name |-> "click_element", arguments |-> <<<<"text", "Udalit">>>>],
    [name |-> "get_page_content", arguments |-> <<>>],
    [name |-> "open_tab", arguments |-> <<>>],
    [name |-> "finish_task", arguments |-> <<<<"summary", "Itog">>>>],
    [name |-> "wait_for_user", arguments |-> <<>>] }

\* the requests of the runs that are followed to their end
LiveCallShapes ==
  { [name |-> "click_element", arguments |-> <<<<"text", "Udalit">>>>],
    [name |-> "get_page_content", arguments |-> <<>>],
    [name |-> "finish_task", arguments |-> <<<<"summary", "Itog">>>>],
    [name |-> "wait_for_user", arguments |-> <<>>] }

\* the requests of the runs that move between pages
NavCallShapes ==
  { [name |-> "click_element", arguments |-> <<<<"text", "Udalit">>>>],
    [name |-> "navigate", arguments |-> <<<<"url", "other">>>>],
    [name |-> "go_back", arguments |-> <<>>],
    [name |-> "wait_for_user", arguments |-> <<>>] }

\* tool_calls lists over shapes: the ids are the positions in the list
ToolCallListsOver(shapes) ==
  UNION { { [k \in 1..n |-> [id |-> k, name |-> f[k].name, arguments |-> f[k].arguments]]
            : f \in [1..n -> shapes] } : n \in 1..MaxCalls }

ToolCallLists == ToolCallListsOver(CallShapes)

NoContent == "None"
Contents == {NoContent, "Gotovo.", "Prodolzhit?"}

\* _msg_content_str(msg)
msg_content_str(c) == IF c = NoContent THEN "" ELSE c

\* "?" in content_str
HasQuestion(c) == c \in {"Prodolzhit?"}

DecisionsOver(shapes) ==
  { [content |-> c, tool_calls |-> <<>>] : c \in Contents }
    \cup { [content |-> NoContent, tool_calls |-> t] : t \in ToolCallListsOver(shapes) }

Decisions == DecisionsOver(CallShapes)

NoMsg == [none |-> TRUE]
NoResp == "none"
NoResult == [kind |-> "none"]
NoReport == [kind |-> "none"]

\* console lines the operator may type at each prompt
PromptLines(p) ==
  CASE p = "read_task" -> {"kupi moloko", "Quit", ""}
    [] p = "confirm" -> {"Da", "net", "gotovo"}
    [] p = "wait_user" -> {"gotovo", "net"}
    [] p = "handover" -> {" Done ", "net"}
    [] p = "ask_user" -> {"da", ""}
    [] OTHER -> {}

\* ------------------------------------------------------------------------
\* State
\* ------------------------------------------------------------------------
VARIABLES
  pc,                     \* where run_agent is suspended
  step_used,              \* step + 1 of the for loop
  messages,               \* the messages appended since the last decision request
                          \* was issued (the older history is never touched again)
  done, last_reply, empty_responses, failed_actions,
  action_failures,        \* the failure ledger: action_key -> count
  content_only_steps,
  msg,                    \* the decision being processed
  i,                      \* 1-based index of the tool call being processed
  payload,                \* the result of the tool call processed last
  line,                   \* the console line the last _read_line returned
  resp,                   \* how the decision request of this step ended
  call_result,            \* what session.call_tool returned for this tool call
  report,                 \* what the final summary block printed
  \* the browser driver (BrowserMCPServer) and the page it drives
  document,               \* the elements of the page, in document order
  dialogs,                \* the dialog containers of the page, in document order
  page_url,               \* self._page.url
  tool_args,              \* the arguments of the tool call handled last
  tool_result,            \* the dict that call returned
  events,                 \* the elements the call clicked or filled, in order
  pages,                  \* self._context.pages: the open tabs, oldest first
  page,                   \* self._page: the tab the driver acts on
  touches                 \* the tab the call read or changed and the tabs open
                          \* at that moment, one entry per access, in order

\* the state of the browser driver and its page
server == <<document, dialogs, page_url, tool_args, tool_result, events,
            pages, page, touches>>

vars == <<pc, step_used, messages, done, last_reply,
          empty_responses, failed_actions, action_failures, content_only_steps,
          msg, i, payload, line, resp, call_result, report,
          document, dialogs, page_url, tool_args, tool_result, events,
          pages, page, touches>>

NoArgs == [none |-> TRUE]
NoToolResult == [none |-> TRUE]

\* the driver has handled no call and shows an empty page
ServerIdle ==
  /\ document = <<>>
  /\ dialogs = <<>>
  /\ page_url = 0
  /\ tool_args = NoArgs
  /\ tool_result = NoToolResult
  /\ events = <<>>
  /\ pages = <<1>>
  /\ page = 1
  /\ touches = <<>>

\* run_agent at its task prompt, before the first task
LoopIdle ==
  /\ pc = "read_task"
  /\ step_used = 0
  /\ messages = <<>>
  /\ done = FALSE
  /\ last_reply = ""
  /\ empty_responses = 0
  /\ failed_actions = 0
  /\ action_failures = EmptyDict
  /\ content_only_steps = 0
  /\ msg = NoMsg
  /\ i = 0
  /\ payload = NoPayload
  /\ line = NoLine
  /\ resp = NoResp
  /\ call_result = NoResult
  /\ report = NoReport

\* what the code of one tool call never assigns
fixed == <<step_used, empty_responses, content_only_steps, msg, report>>

Init == LoopIdle /\ ServerIdle

\* ------------------------------------------------------------------------
\* run_agent
\* ------------------------------------------------------------------------
\* the summary block printed after the for loop
FinalReport(lr, dn, su, fa) ==
  [kind |-> IF lr # "" THEN "last_reply"
            ELSE IF ~dn /\ su >= max_steps THEN "step_limit"
            ELSE "brief",
   text |-> lr,
   failed_actions |-> fa]

\* the task prompt of the outer while loop: either the loop is left and
\* run_agent returns (its locals are gone), or one task is set up and its
\* first decision request is issued
StartTask ==
  /\ pc = "read_task"
  /\ UNCHANGED server
  /\ \E ln \in PromptLines("read_task") :
       /\ line' = ln
       /\ IF ln = "" \/ StripLower(ln) \in {"quit", "exit", "q", "vyhod"}
            THEN /\ pc' = "exit"
                 /\ step_used' = 0
            ELSE /\ pc' = "llm"
                 /\ step_used' = 1
  /\ messages' = <<>>
  /\ done' = FALSE
  /\ last_reply' = ""
  /\ empty_responses' = 0
  /\ failed_actions' = 0
  /\ action_failures' = EmptyDict
  /\ content_only_steps' = 0
  /\ msg' = NoMsg
  /\ i' = 0
  /\ payload' = NoPayload
  /\ resp' = NoResp
  /\ call_result' = NoResult
  /\ report' = NoReport

\* (mutant) a failed decision request that only ends the step
LLMFaultContinues ==
  /\ pc = "llm"
  /\ UNCHANGED server
  /\ \E kind \in {"timeout", "error"} :
       /\ resp' = kind
       /\ last_reply' = IF kind = "timeout" THEN "Tajmaut LLM. Zadacha ne zavershena."
                        ELSE "Oshibka LLM. Zadacha ne vypolnena."
  /\ pc' = "step_end"
  /\ UNCHANGED <<step_used, messages, done, empty_responses, failed_actions,
                 action_failures, content_only_steps, msg, i, payload, line,
                 call_result, report>>

\* last_reply after a failed decision request
AbortReply(kind) ==
  IF kind = "timeout" THEN "Tajmaut LLM. Zadacha ne zavershena."
  ELSE "Oshibka LLM. Zadacha ne vypolnena."

\* the decision request timed out or raised: break, then the report
LLMFault ==
  /\ pc = "llm"
  /\ UNCHANGED server
  /\ \E kind \in {"timeout", "error"} :
       /\ resp' = kind
       /\ last_reply' = AbortReply(kind)
  /\ pc' = "read_task"
  /\ report' = FinalReport(last_reply', done, step_used, failed_actions)
  /\ UNCHANGED <<step_used, messages, done,
                 empty_responses, failed_actions, action_failures,
                 content_only_steps, msg, i, payload, line, call_result>>

AssistantMessage(m) ==
  [role |-> "assistant", content |-> m.content, tool_calls |-> m.tool_calls]

UserMessage(text) == [role |-> "user", content |-> text]

ToolMessage(id, pl) == [role |-> "tool", tool_call_id |-> id, content |-> pl]

EmptyHint == "Otvet dejstviem (tool_calls) ili vyzovi finish_task"
ContentOnlyHint == "Vyzovi wait_for_user ili finish_task."

\* (mutant) the protocol fault declared on the first empty decision
EmptyFaultEarly(n) == n >= 1

\* empty_responses >= 2
EmptyFault(n) == n >= 2

\* a decision m arrived: history, empty-response protocol, then either the
\* tool loop or the text branch
DecideAmong(decisions) ==
  /\ pc = "llm"
  /\ UNCHANGED server
  /\ \E m \in decisions :
       LET content_str == msg_content_str(m.content)
           has_content == content_str # ""
           has_tools == m.tool_calls # <<>>
           appended == Append(messages, AssistantMessage(m))
       IN /\ msg' = m
          /\ resp' = "ok"
          /\ IF ~has_content /\ ~has_tools
               THEN /\ IF EmptyFault(empty_responses + 1)
                         THEN /\ messages' = Append(appended, UserMessage(EmptyHint))
                              /\ empty_responses' = 0
                         ELSE /\ messages' = appended
                              /\ empty_responses' = empty_responses + 1
                    /\ pc' = "step_end"
                    /\ UNCHANGED <<last_reply, content_only_steps, i>>
               ELSE IF has_tools
                 THEN /\ empty_responses' = 0
                      /\ content_only_steps' = 0
                      /\ messages' = appended
                      /\ pc' = "tool"
                      /\ i' = 1
                      /\ UNCHANGED last_reply
                 ELSE /\ empty_responses' = 0
                      /\ last_reply' = content_str
                      /\ i' = i
                      /\ IF HasQuestion(content_str)
                           THEN /\ pc' = "ask_user"
                                /\ messages' = appended
                                /\ UNCHANGED content_only_steps
                           ELSE /\ pc' = "step_end"
                                /\ IF content_only_steps + 1 >= 3
                                     THEN /\ content_only_steps' = 0
                                          /\ messages' = Append(appended, UserMessage(ContentOnlyHint))
                                     ELSE /\ content_only_steps' = content_only_steps + 1
                                          /\ messages' = appended
  /\ UNCHANGED <<step_used, done, failed_actions,
                 action_failures, payload, line, call_result, report>>

Decide == DecideAmong(Decisions)

\* the operator's answer to a text decision that asks a question
AskUserReply ==
  /\ pc = "ask_user"
  /\ UNCHANGED server
  /\ \E ln \in PromptLines("ask_user") :
       /\ line' = ln
       /\ messages' = IF ln # "" THEN Append(messages, UserMessage(ln)) ELSE messages
  /\ pc' = "step_end"
  /\ UNCHANGED <<step_used, done, last_reply,
                 empty_responses, failed_actions, action_failures,
                 content_only_steps, msg, i, payload, resp, call_result, report>>

\* a loop body that ends only when the task is done
StepEndUnbounded ==
  /\ pc = "step_end"
  /\ UNCHANGED server
  /\ IF done
       THEN /\ pc' = "read_task"
            /\ report' = FinalReport(last_reply, done, step_used, failed_actions)
            /\ UNCHANGED <<step_used, messages, msg, i, payload, line, resp,
                           call_result>>
       ELSE /\ pc' = "llm"
            /\ messages' = <<>>
            /\ msg' = NoMsg
            /\ i' = 0
            /\ payload' = NoPayload
            /\ line' = NoLine
            /\ resp' = NoResp
            /\ call_result' = NoResult
            /\ UNCHANGED <<step_used, report>>
  /\ UNCHANGED <<done, last_reply, empty_responses, failed_actions,
                 action_failures, content_only_steps>>

\* the end of the loop body: break when done, else the next iteration of
\* "for step in range(max_steps)" (a new decision request) or its exhaustion
StepEnd ==
  /\ pc = "step_end"
  /\ UNCHANGED server
  /\ IF done \/ step_used >= max_steps
       THEN /\ pc' = "read_task"
            /\ report' = FinalReport(last_reply, done, step_used, failed_actions)
            /\ UNCHANGED <<step_used, messages, msg, i, payload, line, resp,
                           call_result>>
       ELSE /\ pc' = "llm"
            /\ step_used' = step_used + 1
            /\ messages' = <<>>
            /\ msg' = NoMsg
            /\ i' = 0
            /\ payload' = NoPayload
            /\ line' = NoLine
            /\ resp' = NoResp
            /\ call_result' = NoResult
            /\ UNCHANGED report
  /\ UNCHANGED <<done, last_reply, empty_responses,
                 failed_actions, action_failures, content_only_steps>>

\* ------------------------------------------------------------------------
\* The tool loop: for i, tc in enumerate(msg.tool_calls)
\* ------------------------------------------------------------------------
CurCall == msg.tool_calls[i]
CurArgs == json_loads(CurCall.arguments)
CurKey == ActionKey(CurCall.name, CurArgs)

\* the confirmation gate applies to this request
NeedsConfirm(name, args) ==
  /\ name = "click_element"
  /\ Truthy(args, "text")
  /\ DANGEROUS_PATTERNS(args["text"])

\* (mutant) the threshold test off by one
HandoverDueLate(nfail) == nfail > MAX_SAME_ACTION_RETRIES

\* nfail >= MAX_SAME_ACTION_RETRIES
HandoverDue(nfail) == nfail >= MAX_SAME_ACTION_RETRIES

\* (mutant) is_ambiguous that trusts the ambiguous member alone
is_ambiguous_flag_only(pl) == Get(pl, "ambiguous", FALSE)

\* is_ambiguous of a failed payload
is_ambiguous(pl) ==
  HasAmbiguousMarker(Get(pl, "error", "")) \/ Get(pl, "ambiguous", FALSE)

\* the ledger after the browser's result for the request with key `key`
LedgerAfterResult(ledger, key, pl) ==
  IF ~Get(pl, "success", TRUE) /\ ~is_ambiguous(pl)
    THEN Put(ledger, key, Get(ledger, key, 0) + 1)
    ELSE ledger

\* (mutant) a handover that leaves the ledger as it is
LedgerKeptAfterHandover(ledger, key) == ledger

\* action_failures[action_key] = 0 after the handover
LedgerAfterHandover(ledger, key) == Put(ledger, key, 0)

\* a loop that leaves the skipped calls without a result
SkipMessagesNone(calls, k) == <<>>

\* the results appended for the calls after position k of calls
SkipMessages(calls, k) ==
  [j \in 1..(Len(calls) - k) |-> ToolMessage(calls[k + j].id, payload_skip)]

\* (mutant) the 0-based bound applied to the 1-based index
NavigationBreakOffByOne(pl, k, n_tools) ==
  Get(pl, "page_navigated", FALSE) /\ k < n_tools - 1

\* payload.get("page_navigated") and i < n_tools - 1
NavigationBreak(pl, k, n_tools) == Get(pl, "page_navigated", FALSE) /\ k < n_tools

\* the for loop moves to the next call, or is over
NextCall ==
  IF i < Len(msg.tool_calls)
    THEN pc' = "tool" /\ i' = i + 1
    ELSE pc' = "step_end" /\ i' = i

\* the tail of one iteration: tally, tool message, navigation skip
FinishCall(pl) ==
  /\ payload' = pl
  /\ failed_actions' = IF ~Get(pl, "success", TRUE) THEN failed_actions + 1
                       ELSE failed_actions
  /\ IF NavigationBreak(pl, i, Len(msg.tool_calls))
       THEN /\ messages' = Append(messages, ToolMessage(CurCall.id, pl))
                             \o SkipMessages(msg.tool_calls, i)
            /\ pc' = "step_end"
            /\ i' = i
       ELSE /\ messages' = Append(messages, ToolMessage(CurCall.id, pl))
            /\ NextCall

\* from the print of the request to the first await of its branch (line and
\* call_result are left to the caller)
Dispatch(name, args) ==
  IF name = "wait_for_user"
    THEN /\ pc' = "wait_user"
         /\ UNCHANGED <<fixed, messages, done, last_reply, failed_actions,
                        action_failures, i, payload, resp>>
  ELSE IF name = "finish_task"
    THEN /\ done' = TRUE
         /\ last_reply' = FinishPayload(args).summary
         /\ FinishCall(FinishPayload(args))
         /\ UNCHANGED <<fixed, action_failures, resp>>
  ELSE IF HandoverDue(Get(action_failures, ActionKey(name, args), 0))
    THEN IF HANDOVER_AFTER_RETRIES
           THEN /\ pc' = "handover"
                /\ UNCHANGED <<fixed, messages, done, last_reply, failed_actions,
                               action_failures, i, payload, resp>>
           ELSE /\ FinishCall(RepeatedPayload)
                /\ UNCHANGED <<fixed, done, last_reply, action_failures, resp>>
  ELSE /\ pc' = "browser"
       /\ UNCHANGED <<fixed, messages, done, last_reply, failed_actions,
                      action_failures, i, payload, resp>>

\* the head of one iteration, up to its first await; nothing has been read
\* from the console or the driver for this call yet
BeginCall ==
  /\ pc = "tool"
  /\ UNCHANGED server
  /\ line' = NoLine
  /\ call_result' = NoResult
  /\ IF NeedsConfirm(CurCall.name, CurArgs)
       THEN /\ pc' = "confirm"
            /\ UNCHANGED <<fixed, messages, done, last_reply, failed_actions,
                           action_failures, i, payload, resp>>
       ELSE Dispatch(CurCall.name, CurArgs)

\* _confirm returned: the declined branch, or on with the request
ConfirmAnswer ==
  /\ pc = "confirm"
  /\ UNCHANGED server
  /\ \E ln \in PromptLines("confirm") :
       /\ line' = ln
       /\ IF ~Confirm(ln)
            THEN /\ messages' = Append(messages, ToolMessage(CurCall.id, DeclinedPayload))
                 /\ NextCall
                 /\ UNCHANGED <<fixed, done, last_reply, failed_actions,
                                action_failures, payload, resp, call_result>>
            ELSE /\ Dispatch(CurCall.name, CurArgs)
                 /\ UNCHANGED call_result

\* _do_wait_for_user read a line
WaitUserLine ==
  /\ pc = "wait_user"
  /\ UNCHANGED server
  /\ \E ln \in PromptLines("wait_user") :
       /\ line' = ln
       /\ IF IsReady(ln)
            THEN /\ FinishCall(WaitPayload)
                 /\ UNCHANGED <<fixed, done, last_reply, action_failures, resp,
                                call_result>>
            ELSE UNCHANGED <<pc, fixed, messages, done, last_reply, failed_actions,
                             action_failures, i, payload, resp, call_result>>

\* _do_handover_to_user read a line
HandoverLine ==
  /\ pc = "handover"
  /\ UNCHANGED server
  /\ \E ln \in PromptLines("handover") :
       /\ line' = ln
       /\ IF IsReady(ln)
            THEN /\ action_failures' = LedgerAfterHandover(action_failures, CurKey)
                 /\ FinishCall(HandoverPayload)
                 /\ UNCHANGED <<fixed, done, last_reply, resp, call_result>>
            ELSE UNCHANGED <<pc, fixed, messages, done, last_reply, failed_actions,
                             action_failures, i, payload, resp, call_result>>

\* the payload of the awaited session.call_tool
CallPayload(cr) ==
  IF cr.kind = "raise" THEN ExceptionPayload
  ELSE parse_tool_result(cr.content, cr.structuredContent, cr.isError)

\* session.call_tool returned the server's result or raised (the driver is
\* unreachable): payload, ledger, tail
ToolReturn ==
  /\ pc = "browser"
  /\ UNCHANGED server
  /\ \E cr \in ServerResults(CurCall.name) \cup {[kind |-> "raise"]} :
       /\ call_result' = cr
       /\ action_failures' = LedgerAfterResult(action_failures, CurKey, CallPayload(cr))
       /\ FinishCall(CallPayload(cr))
  /\ UNCHANGED <<fixed, done, last_reply, line, resp>>

Next ==
  \/ StartTask
  \/ LLMFault
  \/ Decide
  \/ AskUserReply
  \/ StepEnd
  \/ BeginCall
  \/ ConfirmAnswer
  \/ WaitUserLine
  \/ HandoverLine
  \/ ToolReturn

Spec == Init /\ [][Next]_vars

\* the operator answers a wait with one of the ready words
WaitReturns == WaitUserLine /\ pc' # "wait_user"
HandoverReturns == HandoverLine /\ pc' # "handover"

\* the loop under decisions over LiveCallShapes
LiveDecide == DecideAmong(DecisionsOver(LiveCallShapes))

LiveNext ==
  \/ StartTask
  \/ LLMFault
  \/ LiveDecide
  \/ AskUserReply
  \/ StepEnd
  \/ BeginCall
  \/ ConfirmAnswer
  \/ WaitUserLine
  \/ HandoverLine
  \/ ToolReturn

\* the loop under decisions over NavCallShapes
NavDecide == DecideAmong(DecisionsOver(NavCallShapes))

NavNext ==
  \/ StartTask
  \/ LLMFault
  \/ NavDecide
  \/ AskUserReply
  \/ StepEnd
  \/ BeginCall
  \/ ConfirmAnswer
  \/ WaitUserLine
  \/ HandoverLine
  \/ ToolReturn

NavSpec == Init /\ [][NavNext]_vars

\* a step of a running task other than a console line that leaves the
\* operator's wait where it is
Progress ==
  \/ LLMFault
  \/ LiveDecide
  \/ AskUserReply
  \/ StepEnd
  \/ BeginCall
  \/ ConfirmAnswer
  \/ WaitReturns
  \/ HandoverReturns
  \/ ToolReturn

\* every awaited call returns: the decision request (asyncio.wait_for), the
\* console reads, session.call_tool; the steps between awaits run on.  The
\* task prompt may wait for ever.
Returning == WF_vars(Progress)

LiveSpec == Init /\ [][LiveNext]_vars /\ Returning

\* ------------------------------------------------------------------------
\* The browser driver (src/mcp_server.py).  A text is the sequence of its
\* characters; "nbsp" stands for U+00A0 and "nl" for a newline.
\* ------------------------------------------------------------------------
WhiteChars == {" ", "nbsp", "nl"}

\* one character of str.lower() / String.prototype.toLowerCase()
LowerChar(ch) ==
  CASE ch = "A" -> "a"
    [] ch = "B" -> "b"
    [] OTHER -> ch

toLowerCase(s) == [k \in 1..Len(s) |-> LowerChar(s[k])]

\* s.includes(t)
Includes(s, t) == \E k \in 0..(Len(s) - Len(t)) : SubSeq(s, k + 1, k + Len(t)) = t

\* s.startsWith(t)
startsWith(s, t) == Len(t) <= Len(s) /\ SubSeq(s, 1, Len(t)) = t

\* /\s/.test(s)
HasWhite(s) == \E k \in 1..Len(s) : s[k] \in WhiteChars

RECURSIVE SplitFrom(_, _, _)
\* the words of s from position k on; cur is the word being read
SplitFrom(s, k, cur) ==
  IF k > Len(s) THEN (IF cur = <<>> THEN <<>> ELSE <<cur>>)
  ELSE IF s[k] \in WhiteChars
    THEN (IF cur = <<>> THEN <<>> ELSE <<cur>>) \o SplitFrom(s, k + 1, <<>>)
    ELSE SplitFrom(s, k + 1, Append(cur, s[k]))

\* str.split() and s.split(/\s+/).filter(w => w.length > 0)
split(s) == SplitFrom(s, 1, <<>>)

RECURSIVE join(_)
\* " ".join(words)
join(words) ==
  IF words = <<>> THEN <<>>
  ELSE IF Len(words) = 1 THEN words[1]
  ELSE words[1] \o <<" ">> \o join(Tail(words))

RECURSIVE trim(_)
\* str.strip() and String.prototype.trim()
trim(s) ==
  IF s = <<>> THEN s
  ELSE IF s[1] \in WhiteChars THEN trim(Tail(s))
  ELSE IF s[Len(s)] \in WhiteChars THEN trim(SubSeq(s, 1, Len(s) - 1))
  ELSE s

\* the first n elements of a sequence: seq.slice(0, n)
slice(seq, n) == SubSeq(seq, 1, IF Len(seq) < n THEN Len(seq) ELSE n)

\* a normalizer that returns its argument
normalize_text_off(s) == s

\* _normalize_text: the listed space variants and newlines become " ", then
\* " ".join(t.split())
normalize_text(s) ==
  join(split([k \in 1..Len(s) |-> IF s[k] \in {"nbsp", "nl"} THEN " " ELSE s[k]]))

\* norm of the click scripts: replace(/\s+/g, ' ').trim().toLowerCase()
norm(s) == toLowerCase(join(split(s)))

\* collapseSpaces of the page script: replace(/\s+/g, '').toLowerCase()
collapseSpaces(s) == toLowerCase(SelectSeq(s, LAMBDA ch : ch \notin WhiteChars))

\* firstWords(s, n) of the page script
firstWords(s, n) == trim(join(slice(split(s), n)))

\* the number of words of a text
WordCount(s) == Len(split(s))

\* the positions 1..n as a sequence
Positions(n) == [k \in 1..n |-> k]

\* ------------------------------------------------------------------------
\* The page.  The document is body > elements (no nesting below); an
\* element is [tag, text, value, label, state, dlg]: text is its
\* textContent, value its value property, label its placeholder (input) or
\* the text of its <label for> (radio), state one of "enabled", "disabled"
\* (disabled attribute, aria-disabled, pointer-events none) and "hidden"
\* (display none, visibility hidden), dlg the dialog that contains it
\* (0: none).  Position 0 stands for body.
\* ------------------------------------------------------------------------
BodyPos == 0

RECURSIVE ConcatTexts(_, _)
\* textContent of body: the texts of the elements from k on, separated by
\* the white space between the tags
ConcatTexts(doc, k) ==
  IF k > Len(doc) THEN <<>>
  ELSE doc[k].text \o <<"nl">> \o ConcatTexts(doc, k + 1)

\* clickableSel of _JS_CLICK_SCRIPT
PageClickable(el) == el.tag \in {"a", "button"}

\* getText of _JS_CLICK_SCRIPT: textContent || innerText || value
PageText(el) == norm(IF el.text # <<>> THEN el.text ELSE el.value)

\* the match test of collectAllMatchesWithEl for element text c
PageMatch(c, txt) ==
  LET requestWordCount == WordCount(txt)
      elementWordCount == WordCount(c)
      txtCol == collapseSpaces(txt)
      cCol == collapseSpaces(c)
      elementContainsRequest == Includes(c, txt)
      exactMatch == c = txt
      requestContainsElement ==
        Includes(txt, c) /\ ~(requestWordCount >= 3 /\ elementWordCount <= 2)
      collapsedMatch ==
        Len(txtCol) >= 2 /\ (\/ cCol = txtCol
                             \/ Includes(cCol, txtCol)
                             \/ (Len(cCol) >= 4 /\ Includes(txtCol, cCol)))
  IN elementContainsRequest \/ exactMatch \/ requestContainsElement \/ collapsedMatch

\* collectAllMatchesWithEl(txt): the positions of the matches, in document order
collectAllMatchesWithEl(doc, txt) ==
  SelectSeq(Positions(Len(doc)),
            LAMBDA k : /\ PageClickable(doc[k])
                       /\ PageText(doc[k]) # <<>>
                       /\ PageMatch(PageText(doc[k]), txt))

\* results of the click scripts
ScriptNull == [kind |-> "null", target |-> BodyPos, count |-> 0, contexts |-> <<>>]
ScriptNotOk == [kind |-> "notok", target |-> BodyPos, count |-> 0, contexts |-> <<>>]
ScriptClicked(k, n) == [kind |-> "clicked", target |-> k, count |-> n, contexts |-> <<>>]
ScriptAmbiguous(matches) ==
  [kind |-> "ambiguous", target |-> BodyPos, count |-> Len(matches),
   contexts |-> slice(matches, 5)]

\* the text the fallback of findAndClick reads from element k
\* (textContent || innerText; no value)
FallbackText(doc, k) == norm(IF k = BodyPos THEN ConcatTexts(doc, 1) ELSE doc[k].text)

\* the match test of the fallback of findAndClick
FallbackMatch(c, txt) ==
  LET requestWordCount == WordCount(txt)
      elementWordCount == WordCount(c)
      txtCol == collapseSpaces(txt)
      cColFb == collapseSpaces(c)
      requestContainsElement ==
        Includes(txt, slice(c, 60)) /\ ~(requestWordCount >= 3 /\ elementWordCount <= 2)
      collapsedMatch ==
        Len(txtCol) >= 2 /\ (\/ cColFb = txtCol
                             \/ Includes(cColFb, txtCol)
                             \/ (Len(cColFb) >= 4 /\ Includes(txtCol, cColFb)))
  IN Includes(c, txt) \/ startsWith(c, txt) \/ requestContainsElement \/ collapsedMatch

\* the element the fallback clicks for the matching element k: one of the
\* clickable descendants of k, else k itself
FallbackTarget(doc, k, txt) ==
  LET clickables == IF k = BodyPos
                      THEN SelectSeq(Positions(Len(doc)), LAMBDA j : PageClickable(doc[j]))
                      ELSE <<>>
      byExactMatch == SelectSeq(clickables, LAMBDA j : PageText(doc[j]) = txt)
      matching == SelectSeq(clickables,
                            LAMBDA j : /\ PageText(doc[j]) # <<>>
                                       /\ (\/ Includes(PageText(doc[j]), txt)
                                           \/ Includes(txt, PageText(doc[j]))))
      best == SelectSeq(matching, LAMBDA j : Includes(PageText(doc[j]), txt))
      withText == SelectSeq(clickables, LAMBDA j : Len(trim(PageText(doc[j]))) >= 2)
  IN IF clickables = <<>> THEN k
     ELSE IF byExactMatch # <<>> THEN byExactMatch[1]
     ELSE IF matching # <<>> THEN (IF best # <<>> THEN best ELSE matching)[1]
     ELSE IF withText # <<>> THEN withText[1]
     ELSE clickables[1]

\* the branch allMatches.length === 0 of findAndClick: the candidates over
\* document.querySelectorAll('*'), sorted by text length (all are in view)
Fallback(doc, txt) ==
  LET all == <<BodyPos>> \o Positions(Len(doc))
      cands == SelectSeq(all, LAMBDA k : /\ FallbackText(doc, k) # <<>>
                                         /\ Len(FallbackText(doc, k)) < 400
                                         /\ FallbackMatch(FallbackText(doc, k), txt))
      shortest == SelectSeq(cands,
                            LAMBDA k : \A j \in 1..Len(cands) :
                                         Len(FallbackText(doc, k)) <= Len(FallbackText(doc, cands[j])))
  IN IF cands = <<>> THEN ScriptNull
     ELSE ScriptClicked(FallbackTarget(doc, shortest[1], txt), 0)

\* a resolution that never reports ambiguity
findAndClickFirst(doc, raw, txt, allMatches) ==
  IF allMatches = <<>> THEN Fallback(doc, txt)
  ELSE ScriptClicked(allMatches[1], Len(allMatches))

\* findAndClick(txt) of _JS_CLICK_SCRIPT after collectAllMatchesWithEl; raw
\* is the trimmed request
findAndClickIn(doc, raw, txt, allMatches) ==
  LET bestForSpecific == SelectSeq(allMatches, LAMBDA k : Includes(PageText(doc[k]), txt))
      toClick == IF Len(allMatches) > 1
                   THEN (IF bestForSpecific # <<>> THEN bestForSpecific ELSE allMatches)[1]
                   ELSE allMatches[1]
      hasUniqueSpecificMatch == Len(bestForSpecific) = 1
      textIsShort == WordCount(raw) <= 2
  IN IF allMatches = <<>> THEN Fallback(doc, txt)
     ELSE IF Len(allMatches) >= 3 /\ textIsShort /\ ~hasUniqueSpecificMatch
       THEN ScriptAmbiguous(allMatches)
     ELSE ScriptClicked(toClick, Len(allMatches))

findAndClick(doc, raw, txt) ==
  findAndClickIn(doc, raw, txt, collectAllMatchesWithEl(doc, txt))

\* the first result of the loop over searchParts that is not null
FirstResult(res, rest) == IF res.kind # "null" THEN res ELSE rest

RECURSIVE TrySearchParts(_, _, _, _)
\* for (const t of searchParts): the first result that is not null
TrySearchParts(doc, raw, searchParts, k) ==
  IF k > Len(searchParts) THEN ScriptNotOk
  ELSE IF Len(searchParts[k]) < 2 THEN TrySearchParts(doc, raw, searchParts, k + 1)
  ELSE FirstResult(findAndClick(doc, raw, searchParts[k]),
                   TrySearchParts(doc, raw, searchParts, k + 1))

\* _JS_CLICK_SCRIPT([textArg])
JS_CLICK_SCRIPT(doc, textArg) ==
  LET raw == trim(textArg)
      text == toLowerCase(raw)
      searchParts ==
        <<text>>
          \o (IF Len(text) > 20 THEN <<firstWords(text, 5), firstWords(text, 3)>> ELSE <<>>)
          \o (IF HasWhite(text) THEN <<collapseSpaces(text)>> ELSE <<>>)
  IN IF raw = <<>> THEN ScriptNotOk
     ELSE TrySearchParts(doc, raw, searchParts, 1)

\* ------------------------------------------------------------------------
\* Tabs.  A tab is known by its number; pages lists the open tabs in the
\* order they were opened.
\* ------------------------------------------------------------------------
\* a driver that leaves the tabs as they are
ensure_single_tab_off(ps, p) == [pages |-> ps, page |-> p]

\* _ensure_single_tab: every tab after the first is closed and the first is
\* the tab acted on; with one tab at most nothing is assigned
ensure_single_tab(ps, p) ==
  IF Len(ps) <= 1 THEN [pages |-> ps, page |-> p]
  ELSE [pages |-> <<ps[1]>>, page |-> ps[1]]

\* the tabs after the page opened n more
Opened(ps, n) == ps \o [k \in 1..n |-> Len(ps) + k]

\* one access to the page: the tab it went to, the tabs open then, and the
\* number of tabs the call closed before it
Touch(p, ps, c) == [on |-> p, open |-> ps, closed |-> c]

\* the first access of a call that found the tabs ps: after _ensure_single_tab
FirstTouch(ps, e) == Touch(e.page, e.pages, Len(ps) - Len(e.pages))

\* ------------------------------------------------------------------------
\* Dialogs.  A dialog container is [role, aria_modal, visible]; every entry
\* of dialogs has role "dialog" or "alertdialog" or is aria-modal.
\* ------------------------------------------------------------------------
NoDialog == 0

\* the positions of the elements inside dialog d, in document order
DialogElements(doc, d) == SelectSeq(Positions(Len(doc)), LAMBDA k : doc[k].dlg = d)

\* _get_dialog_locator: the first visible dialog, alertdialog or aria-modal
get_dialog_locator(dlgs) ==
  LET vis == SelectSeq(Positions(Len(dlgs)), LAMBDA d : dlgs[d].visible)
  IN IF vis = <<>> THEN NoDialog ELSE vis[1]

\* document.querySelector('[role="dialog"]') || document.querySelector('[aria-modal="true"]')
ScriptDialogRoot(dlgs) ==
  LET byRole == SelectSeq(Positions(Len(dlgs)), LAMBDA d : dlgs[d].role = "dialog")
      byModal == SelectSeq(Positions(Len(dlgs)), LAMBDA d : dlgs[d].aria_modal)
  IN IF byRole # <<>> THEN byRole[1]
     ELSE IF byModal # <<>> THEN byModal[1]
     ELSE NoDialog

RECURSIVE ConcatAt(_, _, _)
\* the texts of the elements at positions ks[k..], separated by white space
ConcatAt(doc, ks, k) ==
  IF k > Len(ks) THEN <<>>
  ELSE doc[ks[k]].text \o <<"nl">> \o ConcatAt(doc, ks, k + 1)

\* a test that takes every control for enabled
isDisabledNever(el) == FALSE

\* isDisabled of _JS_CLICK_IN_DIALOG_SCRIPT
isDisabled(el) == el.state \in {"disabled", "hidden"}

\* clickableSel of _JS_CLICK_IN_DIALOG_SCRIPT
DialogClickable(el) == el.tag \in {"a", "button", "radio"}

\* collapseSpaces of _JS_CLICK_IN_DIALOG_SCRIPT: its pattern /\\s+/g matches
\* a backslash followed by the letter s, which no text holds, so only the
\* case is folded
DialogCollapseSpaces(s) == toLowerCase(s)

\* getText of _JS_CLICK_IN_DIALOG_SCRIPT: the label of a radio is read only
\* when its textContent and its value are empty
DialogText(el) ==
  LET t == norm(IF el.text # <<>> THEN el.text ELSE el.value)
  IN IF t = <<>> /\ el.tag = "radio" THEN norm(el.label) ELSE t

\* collapsedOk of _JS_CLICK_IN_DIALOG_SCRIPT
DialogCollapsedOk(c, textCol) ==
  LET cCol == DialogCollapseSpaces(c)
  IN Len(textCol) >= 2 /\ (\/ cCol = textCol
                           \/ Includes(cCol, textCol)
                           \/ (Len(cCol) >= 4 /\ Includes(textCol, cCol)))

\* results of _JS_CLICK_IN_DIALOG_SCRIPT
DialogDisabled == [kind |-> "disabled", target |-> BodyPos, matched |-> <<>>]
DialogClicked(k) == [kind |-> "clicked", target |-> k, matched |-> <<>>]
DialogUsePlaywright(mt) == [kind |-> "playwright", target |-> BodyPos, matched |-> mt]
DialogNotOk == [kind |-> "notok", target |-> BodyPos, matched |-> <<>>]

\* _JS_CLICK_IN_DIALOG_SCRIPT([textArg])
JS_CLICK_IN_DIALOG_SCRIPT(doc, dlgs, textArg) ==
  LET raw == trim(textArg)
      root == ScriptDialogRoot(dlgs)
      text == norm(raw)
      textCol == DialogCollapseSpaces(raw)
      inRoot == DialogElements(doc, root)
      btns == SelectSeq(inRoot, LAMBDA k : DialogClickable(doc[k]))
      matches == SelectSeq(btns,
                   LAMBDA k : LET c == DialogText(doc[k])
                              IN c # <<>> /\ (\/ Includes(c, text)
                                              \/ c = text
                                              \/ Includes(text, c)
                                              \/ DialogCollapsedOk(c, textCol)))
      candidates == SelectSeq(inRoot,
                      LAMBDA k : LET c == DialogText(doc[k])
                                 IN /\ c # <<>>
                                    /\ Len(c) < 200
                                    /\ (\/ Includes(c, text)
                                        \/ startsWith(c, text)
                                        \/ DialogCollapsedOk(c, textCol)))
      fullMatch == SelectSeq(candidates, LAMBDA k : Includes(DialogText(doc[k]), text))
      toUse == IF fullMatch # <<>> THEN fullMatch ELSE candidates
      shortest == SelectSeq(toUse,
                    LAMBDA k : \A j \in 1..Len(toUse) :
                                 Len(DialogText(doc[k])) <= Len(DialogText(doc[toUse[j]])))
  IN IF raw = <<>> \/ root = NoDialog THEN DialogNotOk
     ELSE IF matches # <<>>
       THEN (IF isDisabled(doc[matches[1]]) THEN DialogDisabled
             ELSE DialogClicked(matches[1]))
     ELSE IF candidates # <<>>
       THEN DialogUsePlaywright(slice(DialogText(doc[shortest[1]]), 60))
     ELSE DialogNotOk

\* _CHECK_DIALOG_SCRIPT: btnTexts and modalFullText of the dialog the
\* script finds (hasDialog false when it finds none)
CheckDialog(doc, dlgs) ==
  LET d == ScriptDialogRoot(dlgs)
      btns == SelectSeq(DialogElements(doc, d), LAMBDA k : doc[k].tag \in {"button", "a"})
      texts == SelectSeq([k \in 1..Len(btns) |-> trim(doc[btns[k]].text)],
                         LAMBDA t : t # <<>>)
  IN [hasDialog |-> d # NoDialog,
      btnTexts |-> slice(texts, 15),
      modalFullText |->
        toLowerCase(slice(join(split(ConcatAt(doc,
          SelectSeq(DialogElements(doc, d), LAMBDA k : doc[k].state # "hidden"), 1))), 2000))]

\* the test of _click_element that a search part sp names the button text bt
InDialogButton(sp, bt) ==
  LET bt_norm == toLowerCase(trim([k \in 1..Len(bt) |-> IF bt[k] = "nl" THEN " " ELSE bt[k]]))
  IN /\ bt_norm # <<>>
     /\ Len(sp) >= 2
     /\ (\/ Includes(bt_norm, sp)
         \/ Includes(sp, bt_norm)
         \/ startsWith(bt_norm, slice(sp, 30))
         \/ (Len(sp) <= 60 /\ startsWith(sp, slice(bt_norm, 40))))

\* in_dialog of _click_element: the request is among the buttons of the
\* dialog or in its text
in_dialog(diag_d, use_text) ==
  LET search_lower == trim(toLowerCase(use_text))
      words == slice(split(search_lower), 5)
      search_parts == <<search_lower>>
                        \o (IF Len(search_lower) > 20
                              THEN <<join(words), join(slice(words, 3))>> ELSE <<>>)
  IN \/ \E b \in 1..Len(diag_d.btnTexts) : \E p \in 1..Len(search_parts) :
          InDialogButton(search_parts[p], diag_d.btnTexts[b])
     \/ /\ diag_d.modalFullText # <<>>
        /\ \E p \in 1..Len(search_parts) :
             Len(search_parts[p]) >= 2 /\ Includes(diag_d.modalFullText, search_parts[p])

\* ------------------------------------------------------------------------
\* Selectors and Playwright.  A selector is [root, tag]: root names a
\* leading dialog container ("dialog", "alertdialog", "aria_modal", or ""),
\* tag the element selected below it ("" when nothing follows).
\* ------------------------------------------------------------------------
NoSel == [root |-> "", tag |-> ""]
NoClickText == <<>>

\* the position that stands for dialog container d
ContainerPos(d) == 0 - d

\* _strip_dialog_selector: the selector without its leading container, NoSel
\* (None) when nothing is left
strip_dialog_selector(sel) ==
  IF sel.root = "" THEN sel
  ELSE IF sel.tag = "" THEN NoSel
  ELSE [root |-> "", tag |-> sel.tag]

\* dialog container d carries the attribute the selector root names
RootMatches(root, dlg) ==
  CASE root = "dialog" -> dlg.role = "dialog"
    [] root = "alertdialog" -> dlg.role = "alertdialog"
    [] root = "aria_modal" -> dlg.aria_modal
    [] OTHER -> FALSE

\* scope.locator(sel): the positions it resolves to inside scope (NoDialog:
\* the page), in document order
Locate(doc, dlgs, scope, sel) ==
  LET containers == IF sel.tag = "" /\ scope = NoDialog
                      THEN SelectSeq([d \in 1..Len(dlgs) |-> ContainerPos(d)],
                                     LAMBDA c : RootMatches(sel.root, dlgs[0 - c]))
                      ELSE <<>>
      elems == SelectSeq(Positions(Len(doc)),
                 LAMBDA k : /\ sel.tag # ""
                            /\ doc[k].tag = sel.tag
                            /\ scope # NoDialog => doc[k].dlg = scope
                            /\ sel.root # "" => (doc[k].dlg # NoDialog
                                                 /\ RootMatches(sel.root, dlgs[doc[k].dlg])))
  IN containers \o elems

\* Playwright's visible test for position k
IsVisible(doc, dlgs, k) ==
  IF k < 0 THEN dlgs[0 - k].visible
  ELSE /\ doc[k].state # "hidden"
       /\ doc[k].dlg # NoDialog => dlgs[doc[k].dlg].visible

\* Playwright's actionability test of a click: visible and enabled
IsActionable(doc, dlgs, k) ==
  IsVisible(doc, dlgs, k) /\ (k > 0 => doc[k].state = "enabled")

\* scope.get_by_text(t, exact=False): the elements whose text contains t,
\* case folded and white space normalised
GetByText(doc, scope, t) ==
  SelectSeq(Positions(Len(doc)),
            LAMBDA k : /\ scope # NoDialog => doc[k].dlg = scope
                       /\ doc[k].text # <<>>
                       /\ Includes(norm(doc[k].text), norm(t)))

ClickEvent(k, force) == [type |-> "click", target |-> k, force |-> force]

\* locator.first.click(timeout, force): the click is dispatched, or the
\* call raises (no element, or an element that stays not actionable)
PlaywrightClick(doc, dlgs, found, force) ==
  IF found = <<>> THEN [raised |-> TRUE, events |-> <<>>]
  ELSE IF force /\ IsVisible(doc, dlgs, found[1])
    THEN [raised |-> FALSE, events |-> <<ClickEvent(found[1], TRUE)>>]
  ELSE IF ~force /\ IsActionable(doc, dlgs, found[1])
    THEN [raised |-> FALSE, events |-> <<ClickEvent(found[1], FALSE)>>]
  ELSE [raised |-> TRUE, events |-> <<>>]

\* ------------------------------------------------------------------------
\* The page's own behaviour: a click on a link loads another URL; a click
\* on a radio or a label inside a dialog enables the disabled controls of
\* that dialog.
\* ------------------------------------------------------------------------
Navigates(doc, evs) ==
  \E n \in 1..Len(evs) : evs[n].type = "click" /\ evs[n].target > 0
                          /\ doc[evs[n].target].tag = "a"

UrlAfter(doc, url, evs) == IF Navigates(doc, evs) THEN 1 - url ELSE url

DocumentAfter(doc, evs) ==
  LET chosen == {doc[evs[n].target].dlg :
                   n \in {m \in 1..Len(evs) : /\ evs[m].type = "click"
                                              /\ evs[m].target > 0
                                              /\ doc[evs[m].target].tag \in {"radio", "label"}}}
                  \ {NoDialog}
  IN [k \in 1..Len(doc) |->
        IF doc[k].dlg \in chosen /\ doc[k].state = "disabled"
          THEN [doc[k] EXCEPT !.state = "enabled"]
          ELSE doc[k]]

\* ------------------------------------------------------------------------
\* _click_element
\* ------------------------------------------------------------------------
ErrNotInModal == "V modalnom okne net zaproshennogo teksta"
ErrContainerOnly == "Selektor zadaet tolko kontejner dialoga"
ErrDisabled == "Knopka nedostupna. Snachala vyberi opciyu v modalke"
ErrNotFoundInDialog == "Element ne najden v dialoge"
ErrNotClickable == "Element v dialoge ne klikaetsya"
ErrTooLong == "Element ne najden. Zapros slishkom dlinnyj"
ErrNoTarget == "Ukazhi text ili selector"
ErrTimeout == "Timeout 8000ms exceeded"
ErrAmbiguousClick == "Neodnoznachnyj zapros"
SuggestPrecondition == "Vyberi opciyu v modalke i snova nazhmi knopku"
SuggestOther == "Poprobuj drugoj sposob"

\* a failed result; the suggestion member tells the guidance that goes with it
Failure(err, sug) == [success |-> FALSE, error |-> err, suggestion |-> sug]

\* the ambiguous result: count is the number in the error text, previews
\* the number of examples in the suggestion text (contexts[:3])
AmbiguousFailure(res) ==
  [success |-> FALSE, error |-> ErrAmbiguousClick, suggestion |-> SuggestOther,
   count |-> res.count, previews |-> Len(slice(res.contexts, 3))]

\* the dict _do_click returns after a click went through
ClickSuccess(doc, evs, force) ==
  LET base == [success |-> TRUE]
      nav == IF Navigates(doc, evs) THEN [success |-> TRUE, page_navigated |-> TRUE]
             ELSE base
  IN IF force THEN [k \in DOMAIN nav \cup {"force_used"} |->
                      IF k = "force_used" THEN TRUE ELSE nav[k]]
     ELSE nav

Returned(res, evs) == [raised |-> FALSE, result |-> res, events |-> evs]
Raised == [raised |-> TRUE, result |-> Failure(ErrTimeout, SuggestOther), events |-> <<>>]

\* _do_click after loc.click raised or returned
SelectorClickResult(doc, c, force_click) ==
  IF c.raised THEN Raised
  ELSE Returned(ClickSuccess(doc, c.events, force_click), c.events)

\* _do_click after _JS_CLICK_IN_DIALOG_SCRIPT returned result_d
DialogClickResult(doc, dlgs, scope, use_text, force_click, result_d) ==
  IF result_d.kind = "disabled"
    THEN Returned(Failure(ErrDisabled, SuggestPrecondition), <<>>)
  ELSE IF result_d.kind = "notok"
    THEN Returned(Failure(ErrNotFoundInDialog, SuggestOther), <<>>)
  ELSE IF result_d.kind = "playwright"
    THEN LET c == PlaywrightClick(doc, dlgs,
                    GetByText(doc, scope,
                              IF result_d.matched # <<>> THEN result_d.matched
                              ELSE use_text),
                    FALSE)
         IN IF c.raised
              THEN Returned(Failure(ErrNotClickable, SuggestOther), <<>>)
            ELSE Returned(ClickSuccess(doc, c.events, force_click), c.events)
  ELSE LET evs == <<ClickEvent(result_d.target, FALSE)>>
       IN Returned(ClickSuccess(doc, evs, force_click), evs)

\* _do_click after _JS_CLICK_SCRIPT returned result_js
PageClickResult(doc, use_text, force_click, result_js) ==
  IF result_js.kind = "ambiguous"
    THEN Returned(AmbiguousFailure(result_js), <<>>)
  ELSE IF result_js.kind # "clicked"
    THEN (IF WordCount(use_text) > 10
            THEN Returned(Failure(ErrTooLong, SuggestOther), <<>>)
          ELSE Returned(Failure(ErrNotFound, SuggestOther), <<>>))
  ELSE LET evs == <<ClickEvent(result_js.target, FALSE)>>
       IN Returned(ClickSuccess(doc, evs, force_click), evs)

\* _do_click(force_click) for the resolved scope, selector and text
do_click(doc, dlgs, scope, use_sel, use_text, force_click) ==
  IF use_sel # NoSel
    THEN SelectorClickResult(doc,
           PlaywrightClick(doc, dlgs, Locate(doc, dlgs, scope, use_sel), force_click),
           force_click)
  ELSE IF use_text # <<>>
    THEN IF scope # NoDialog
           THEN DialogClickResult(doc, dlgs, scope, use_text, force_click,
                                  JS_CLICK_IN_DIALOG_SCRIPT(doc, dlgs, use_text))
           ELSE PageClickResult(doc, use_text, force_click,
                                JS_CLICK_SCRIPT(doc, use_text))
  ELSE Returned(Failure(ErrNoTarget, SuggestOther), <<>>)

\* a handler that gives up after the first attempt
ClickWithoutRetry(first, second, may_retry) ==
  IF ~first.raised THEN first ELSE Returned(first.result, <<>>)

\* the try/except around _do_click: one forced attempt after a timeout
ClickWithRetry(first, second, may_retry) ==
  IF ~first.raised THEN first
  ELSE IF may_retry /\ ~second.raised THEN second
  ELSE Returned(first.result, <<>>)

\* _click_element after scope, text and selector are resolved
ResolvedClick(doc, dlgs, scope, sel, stripped, text, use_sel, use_text) ==
  IF /\ use_text # <<>>
     /\ scope # NoDialog
     /\ LET diag_d == CheckDialog(doc, dlgs)
        IN /\ diag_d.hasDialog
           /\ diag_d.btnTexts # <<>>
           /\ ~in_dialog(diag_d, use_text)
    THEN Returned(Failure(ErrNotInModal, SuggestOther), <<>>)
  ELSE IF scope # NoDialog /\ sel # NoSel /\ stripped = NoSel /\ text = <<>>
    THEN Returned(Failure(ErrContainerOnly, SuggestOther), <<>>)
  ELSE ClickWithRetry(do_click(doc, dlgs, scope, use_sel, use_text, FALSE),
                      do_click(doc, dlgs, scope, use_sel, use_text, TRUE),
                      use_sel # NoSel \/ use_text # <<>>)

\* _click_element(args): the dict it returns and the click events it
\* dispatched (the Escape fallback for "close modal" requests is left out:
\* no text of the model asks for it)
click_element(doc, dlgs, args) ==
  LET sel == args.selector
      text == args.text
      scope == get_dialog_locator(dlgs)
      stripped == strip_dialog_selector(sel)
  IN ResolvedClick(doc, dlgs, scope, sel, stripped, text,
                   IF scope # NoDialog /\ sel # NoSel THEN stripped ELSE sel,
                   IF text # <<>> THEN normalize_text(text) ELSE <<>>)

\* ------------------------------------------------------------------------
\* _type_text
\* ------------------------------------------------------------------------
ErrIndexLow == "field_index dolzhen byt >= 1"
ErrFill == "Timeout 8000ms exceeded. locator(input) fill"

Fillable(el) == el.tag \in {"input", "textarea"}

\* inputs of _CHECK_DIALOG_INPUT_SCRIPT: the displayed fields of the dialog
\* the script looks at
DialogInputs(doc, dlgs) ==
  LET d == ScriptDialogRoot(dlgs)
  IN SelectSeq(DialogElements(doc, d),
               LAMBDA k : Fillable(doc[k]) /\ IsVisible(doc, dlgs, k))

\* _CHECK_DIALOG_INPUT_SCRIPT([placeholderArg, fieldIndexArg]); the two
\* answers are "true", "false" or "null"
CheckDialogInput(doc, dlgs, placeholderArg, has_index, idx) ==
  LET inputs == DialogInputs(doc, dlgs)
      placeholderNorm == toLowerCase(trim(placeholderArg))
      hasMatchingInput ==
        \E n \in 1..Len(inputs) :
          LET p == toLowerCase(trim(doc[inputs[n]].label))
          IN p # <<>> /\ (Includes(p, placeholderNorm) \/ Includes(placeholderNorm, p))
      fieldIndexInDialog == IF idx >= 1 THEN idx <= Len(inputs) ELSE TRUE
  IN [hasDialog |-> ScriptDialogRoot(dlgs) # NoDialog,
      hasMatchingPlaceholder |->
        IF placeholderNorm = <<>> THEN "null"
        ELSE IF hasMatchingInput THEN "true" ELSE "false",
      fieldIndexInDialog |->
        IF ~has_index THEN "null"
        ELSE IF fieldIndexInDialog THEN "true" ELSE "false"]

\* effective_scope of _type_text
FillScope(doc, dlgs, placeholder, has_index, idx) ==
  LET scope == get_dialog_locator(dlgs)
      diag_in == CheckDialogInput(doc, dlgs, placeholder, has_index, idx)
      use_page == \/ placeholder # <<>> /\ diag_in.hasMatchingPlaceholder = "false"
                  \/ has_index /\ diag_in.fieldIndexInDialog = "false"
  IN IF /\ scope # NoDialog
        /\ (placeholder # <<>> \/ has_index)
        /\ diag_in.hasDialog
        /\ use_page
       THEN NoDialog
     ELSE scope

\* scope.locator(combined_selector): the visible fields of the scope
VisibleFields(doc, dlgs, scope, tags) ==
  SelectSeq(Positions(Len(doc)),
            LAMBDA k : /\ doc[k].tag \in tags
                       /\ IsVisible(doc, dlgs, k)
                       /\ scope # NoDialog => doc[k].dlg = scope)

\* scope.get_by_placeholder(p): the fields whose placeholder contains p,
\* case folded and white space normalised
GetByPlaceholder(doc, scope, p) ==
  SelectSeq(Positions(Len(doc)),
            LAMBDA k : /\ Fillable(doc[k])
                       /\ doc[k].label # <<>>
                       /\ scope # NoDialog => doc[k].dlg = scope
                       /\ Includes(norm(doc[k].label), norm(p)))

FillEvent(k) == [type |-> "fill", target |-> k, force |-> FALSE]

\* locator.fill(text, timeout) on position k (0: the locator finds
\* nothing): the field takes the text, or the call raises
PlaywrightFill(doc, dlgs, k) ==
  IF k >= 1 /\ Fillable(doc[k]) /\ IsActionable(doc, dlgs, k)
    THEN [raised |-> FALSE, events |-> <<FillEvent(k)>>]
  ELSE [raised |-> TRUE, events |-> <<>>]

\* element n of a locator, 0 when it has fewer
Nth(found, n) == IF n >= 1 /\ n <= Len(found) THEN found[n] ELSE 0

\* the document after the fill events evs have written text
FillAfter(doc, evs, text) ==
  [k \in 1..Len(doc) |->
     IF \E n \in 1..Len(evs) : evs[n].type = "fill" /\ evs[n].target = k
       THEN [doc[k] EXCEPT !.value = text]
       ELSE doc[k]]

\* a choice of the field that reads field_index before selector and
\* placeholder
FillTargetIndexFirst(doc, dlgs, args, placeholder, effective_scope) ==
  IF args.has_index
    THEN Nth(VisibleFields(doc, dlgs, effective_scope, {"input", "textarea"}),
             args.field_index)
  ELSE IF args.selector # NoSel
    THEN Nth(Locate(doc, dlgs, effective_scope, args.selector), 1)
  ELSE IF placeholder # <<>>
    THEN Nth(GetByPlaceholder(doc, effective_scope, placeholder), 1)
  ELSE Nth(VisibleFields(doc, dlgs, effective_scope, {"input", "textarea"}), 1)

\* the if/elif chain of _type_text: the position the one fill goes to, 0
\* when the locator finds nothing
FillTarget(doc, dlgs, args, placeholder, effective_scope) ==
  IF args.selector # NoSel
    THEN Nth(Locate(doc, dlgs, effective_scope, args.selector), 1)
  ELSE IF placeholder # <<>>
    THEN Nth(GetByPlaceholder(doc, effective_scope, placeholder), 1)
  ELSE IF args.has_index
    THEN Nth(VisibleFields(doc, dlgs, effective_scope, {"input", "textarea"}),
             args.field_index)
  ELSE IF Len(args.text) > 80
    THEN (IF VisibleFields(doc, dlgs, effective_scope, {"textarea"}) # <<>>
            THEN VisibleFields(doc, dlgs, effective_scope, {"textarea"})[1]
          ELSE Nth(VisibleFields(doc, dlgs, effective_scope, {"input"}), 1))
  ELSE Nth(VisibleFields(doc, dlgs, effective_scope, {"input", "textarea"}), 1)

\* _type_text after the one fill attempt f
FillResult(args, f) ==
  IF args.has_index /\ args.field_index < 1
    THEN Returned(Failure(ErrIndexLow, SuggestOther), <<>>)
  ELSE IF f.raised THEN Returned(Failure(ErrFill, SuggestOther), <<>>)
  ELSE Returned([success |-> TRUE], f.events)

\* _type_text(args): the dict it returns and the fill it performed; a
\* field_index is an integer when it is given
type_text(doc, dlgs, args) ==
  LET placeholder == normalize_text(args.placeholder)
      effective_scope == FillScope(doc, dlgs, placeholder, args.has_index, args.field_index)
  IN FillResult(args,
       PlaywrightFill(doc, dlgs,
                      FillTarget(doc, dlgs, args, placeholder, effective_scope)))

\* ------------------------------------------------------------------------
\* The driver under calls: the pages it is given and the calls it handles.
\* ------------------------------------------------------------------------
loop == <<pc, step_used, messages, done, last_reply,
          empty_responses, failed_actions, action_failures, content_only_steps,
          msg, i, payload, line, resp, call_result, report>>

TxtA == <<"a">>
TxtAb == <<"a", "b">>
TxtAbB == <<"a", "b", " ", "b">>
TxtCd == <<"c", "d">>
TxtOn == <<"o", "n">>
TxtX == <<"x">>
\* a text of more than 80 characters
TxtLong == [k \in 1..81 |-> "x"]

El(tag, text, value, label, state, dlg) ==
  [tag |-> tag, text |-> text, value |-> value, label |-> label,
   state |-> state, dlg |-> dlg]

OpenDialog == [role |-> "dialog", aria_modal |-> TRUE, visible |-> TRUE]
DialogLists == {<<>>, <<OpenDialog>>}

\* the elements of the pages the click calls run against
ClickShapes ==
  { El("button", TxtAb, <<>>, <<>>, "enabled", 0),
    El("button", TxtAbB, <<>>, <<>>, "enabled", 0),
    El("button", TxtA, <<>>, <<>>, "enabled", 0),
    El("a", TxtAb, <<>>, <<>>, "enabled", 0),
    El("div", TxtAb, <<>>, <<>>, "enabled", 0),
    El("button", TxtAb, <<>>, <<>>, "disabled", 1),
    El("button", TxtAb, <<>>, <<>>, "hidden", 1),
    El("radio", <<>>, TxtOn, TxtCd, "enabled", 1),
    El("label", TxtCd, <<>>, <<>>, "enabled", 1) }

\* the elements of the pages the fill calls run against
FillShapes ==
  { El("input", <<>>, <<>>, TxtAbB, "enabled", 0),
    El("textarea", <<>>, <<>>, <<>>, "enabled", 0),
    El("input", <<>>, <<>>, TxtAb, "enabled", 1),
    El("input", <<>>, <<>>, TxtCd, "enabled", 1),
    El("input", <<>>, <<>>, TxtCd, "hidden", 1) }

\* the pages of at most MaxElems elements over shapes whose dialog elements
\* lie in a dialog of dlgs
Pages(shapes, dlgs) ==
  UNION { [1..n -> {e \in shapes : e.dlg <= Len(dlgs)}] : n \in 0..MaxElems }

ClickTexts ==
  { TxtAb, TxtA, TxtAbB, TxtCd,
    <<"A", "b">>,
    <<"a", "b", "nl">>,
    <<"a", "b", "nbsp", "nl", "b">> }

ClickSelectors ==
  { [root |-> "", tag |-> "button"],
    [root |-> "dialog", tag |-> ""],
    [root |-> "dialog", tag |-> "button"] }

ClickArgs(text, sel) == [tool |-> "click_element", text |-> text, selector |-> sel]

ClickRequests ==
  { ClickArgs(t, NoSel) : t \in ClickTexts }
    \cup { ClickArgs(NoClickText, sel) : sel \in ClickSelectors }
    \cup { ClickArgs(TxtAb, [root |-> "dialog", tag |-> ""]),
           ClickArgs(NoClickText, NoSel) }

TypeArgs(text, sel, ph, has, idx) ==
  [tool |-> "type_text", text |-> text, selector |-> sel, placeholder |-> ph,
   has_index |-> has, field_index |-> idx]

FillPlaceholders == { <<>>, TxtAbB, TxtCd, <<"a", "b", "nbsp">> }

TypeRequests ==
  { TypeArgs(TxtX, NoSel, ph, FALSE, 0) : ph \in FillPlaceholders }
    \cup { TypeArgs(TxtX, NoSel, <<>>, TRUE, n) : n \in 0..MaxElems }
    \cup { TypeArgs(TxtX, NoSel, TxtCd, TRUE, 1),
           TypeArgs(TxtX, [root |-> "", tag |-> "input"], <<>>, FALSE, 0),
           TypeArgs(TxtX, [root |-> "", tag |-> "textarea"], TxtCd, FALSE, 0),
           TypeArgs(TxtX, [root |-> "", tag |-> "textarea"], <<>>, TRUE, 1),
           TypeArgs(TxtLong, NoSel, <<>>, FALSE, 0) }

\* the server process before its first call, showing a page over shapes
\* with the dialogs of one of lists
ServerStartedIn(shapes, lists) ==
  /\ dialogs \in lists
  /\ document \in Pages(shapes, dialogs)
  /\ page_url = 0
  /\ tool_args = NoArgs
  /\ tool_result = NoToolResult
  /\ events = <<>>
  /\ pages = <<1>>
  /\ page = 1
  /\ touches = <<>>

ServerStarted(shapes) == ServerStartedIn(shapes, DialogLists)

\* _call_tool("click_element", args) for a call of requests on a page whose
\* clicks open one of popups new tabs: the handler, what the page does with
\* the clicks it receives, and the handler's reading of the URL afterwards
ClickElementWith(requests, popups) ==
  \E args \in requests, n \in popups :
    \E r \in {click_element(document, dialogs, args)} :
      \E e \in {ensure_single_tab(pages, page)} :
         /\ Len(e.pages) + n <= MaxPopups + 1
         /\ tool_args' = args
         /\ tool_result' = r.result
         /\ events' = r.events
         /\ document' = DocumentAfter(document, r.events)
         /\ page_url' = UrlAfter(document, page_url, r.events)
         /\ pages' = IF r.events = <<>> THEN e.pages ELSE Opened(e.pages, n)
         /\ page' = e.page
         /\ touches' = <<FirstTouch(pages, e)>>
                          \o (IF r.result.success THEN <<Touch(e.page, pages', 0)>> ELSE <<>>)
         /\ UNCHANGED <<dialogs, loop>>

\* the calls on pages that open no tabs
ClickElementOf(requests) == ClickElementWith(requests, {0})

ClickElement == ClickElementOf(ClickRequests)

\* _call_tool("type_text", args)
TypeText ==
  \E args \in TypeRequests :
    \E r \in {type_text(document, dialogs, args)} :
       /\ tool_args' = args
       /\ tool_result' = r.result
       /\ events' = r.events
       /\ document' = FillAfter(document, r.events, args.text)
       /\ \E e \in {ensure_single_tab(pages, page)} :
            /\ pages' = e.pages
            /\ page' = e.page
            /\ touches' = <<FirstTouch(pages, e)>>
       /\ UNCHANGED <<dialogs, page_url, loop>>

InitClick == LoopIdle /\ ServerStarted(ClickShapes)
NextClick == ClickElement
SpecClick == InitClick /\ [][NextClick]_vars

InitType == LoopIdle /\ ServerStarted(FillShapes)
NextType == TypeText
SpecType == InitType /\ [][NextType]_vars

\* The seven tools on a page whose clicks open tabs.
NoUrl == 0 - 1
ErrNoUrl == "Ukazhi url dlya perehoda."
ErrPage == "Target page, context or browser has been closed"

TabShapes ==
  { El("a", TxtAb, <<>>, <<>>, "enabled", 0),
    El("button", TxtAb, <<>>, <<>>, "enabled", 0),
    El("input", <<>>, <<>>, TxtAbB, "enabled", 0) }

\* _call_tool("navigate", {url}): no url, a load that fails, or a load
Navigate ==
  \E u \in {NoUrl, 0, 1}, loaded \in BOOLEAN :
    \E e \in {ensure_single_tab(pages, page)} :
       /\ tool_args' = [tool |-> "navigate", url |-> u]
       /\ events' = <<>>
       /\ IF u = NoUrl
            THEN /\ tool_result' = [success |-> FALSE, error |-> ErrNoUrl]
                 /\ touches' = <<>>
                 /\ UNCHANGED <<pages, page, page_url>>
            ELSE /\ pages' = e.pages
                 /\ page' = e.page
                 /\ page_url' = IF loaded THEN u ELSE page_url
                 /\ touches' = <<FirstTouch(pages, e)>>
                                  \o (IF loaded THEN <<Touch(e.page, e.pages, 0)>> ELSE <<>>)
                 /\ tool_result' = IF loaded
                                     THEN [success |-> TRUE, url |-> u, page_navigated |-> TRUE]
                                     ELSE [success |-> FALSE, error |-> ErrPage, url |-> u]
       /\ UNCHANGED <<document, dialogs, loop>>

\* _call_tool("go_back", {}): the history entry before this one, if any, is
\* shown, or page.go_back raises
GoBack ==
  \E moved \in BOOLEAN, raised \in BOOLEAN :
    \E e \in {ensure_single_tab(pages, page)} :
       /\ tool_args' = [tool |-> "go_back"]
       /\ events' = <<>>
       /\ pages' = e.pages
       /\ page' = e.page
       /\ page_url' = IF moved /\ ~raised THEN 1 - page_url ELSE page_url
       /\ touches' = <<FirstTouch(pages, e)>>
                        \o (IF raised THEN <<>> ELSE <<Touch(e.page, e.pages, 0)>>)
       /\ tool_result' = IF raised THEN [success |-> FALSE, error |-> ErrPage]
                         ELSE [success |-> TRUE, url |-> page_url']
       /\ UNCHANGED <<document, dialogs, loop>>

\* a tool that reads the page and leaves it as it is: the content it
\* returns, or the failure when the evaluation raises
ReadTool(name, key) ==
  \E raised \in BOOLEAN :
    \E e \in {ensure_single_tab(pages, page)} :
       /\ tool_args' = [tool |-> name]
       /\ events' = <<>>
       /\ pages' = e.pages
       /\ page' = e.page
       /\ touches' = <<FirstTouch(pages, e)>>
       /\ tool_result' = IF raised THEN [success |-> FALSE, error |-> ErrPage]
                         ELSE [k \in {"success", key} |->
                                 IF k = "success" THEN TRUE ELSE Len(document)]
       /\ UNCHANGED <<document, dialogs, page_url, loop>>

GetPageContent == ReadTool("get_page_content", "content")
Scroll == ReadTool("scroll", "content")
ExtractElements == ReadTool("extract_elements", "elements")

TabClick ==
  ClickElementWith({ClickArgs(TxtAb, NoSel), ClickArgs(NoClickText, NoSel)}, 0..MaxPopups)

InitTabs == LoopIdle /\ ServerStartedIn(TabShapes, {<<>>})
NextTabs ==
  \/ Navigate
  \/ GetPageContent
  \/ TabClick
  \/ TypeText
  \/ Scroll
  \/ GoBack
  \/ ExtractElements
SpecTabs == InitTabs /\ [][NextTabs]_vars

\* Pages with several dialog-like containers.  A container that is not
\* visible is one with display: none; the computed style of the elements
\* inside it is unaffected.
HiddenDialog == [role |-> "dialog", aria_modal |-> TRUE, visible |-> FALSE]
AlertDialog == [role |-> "alertdialog", aria_modal |-> FALSE, visible |-> TRUE]
DialogKinds == {OpenDialog, HiddenDialog, AlertDialog}
SeveralDialogs == {<<>>} \cup { <<a>> : a \in DialogKinds }
                    \cup { <<a, b>> : a \in DialogKinds, b \in DialogKinds }

DialogShapes ==
  { El("button", TxtAb, <<>>, <<>>, "enabled", 0),
    El("button", TxtAb, <<>>, <<>>, "enabled", 1),
    El("button", TxtCd, <<>>, <<>>, "enabled", 1),
    El("button", TxtAb, <<>>, <<>>, "enabled", 2),
    El("button", TxtCd, <<>>, <<>>, "enabled", 2),
    El("div", <<"a", " ", "b", " ", "b">>, <<>>, <<>>, "enabled", 0) }

DialogRequests ==
  { ClickArgs(t, NoSel) : t \in {TxtAb, TxtCd, <<"a", " ", "b", " ", "b">>} }
    \cup { ClickArgs(t, [root |-> "", tag |-> "button"]) : t \in {NoClickText, TxtAb, TxtCd} }

DialogClick == ClickElementOf(DialogRequests)

InitDialogs == LoopIdle /\ ServerStartedIn(DialogShapes, SeveralDialogs)
NextDialogs == DialogClick
SpecDialogs == InitDialogs /\ [][NextDialogs]_vars

\* ------------------------------------------------------------------------
\* Vocabulary of the properties
\* ------------------------------------------------------------------------
\* the request is carried to the browser driver (not wait_for_user/finish_task)
IsBrowserRequest(c) == c.name \notin {"wait_for_user", "finish_task"}

\* the argument set of a request
ArgSet(c) == {c.arguments[k] : k \in 1..Len(c.arguments)}

\* two requests have the same action key: same tool, same argument set
SameRequest(c, d) == c.name = d.name /\ ArgSet(c) = ArgSet(d)

\* the count the loop reads in `ledger` for request c
CountIn(ledger, c) == Get(ledger, ActionKey(c.name, json_loads(c.arguments)), 0)

\* click texts the sensitive-action pattern matches
SensitiveTexts == {"Udalit", "Podtverdit oplatu"}

IsSensitiveRequest(c) ==
  /\ c.name = "click_element"
  /\ \E k \in 1..Len(c.arguments) :
       c.arguments[k][1] = "text" /\ c.arguments[k][2] \in SensitiveTexts

\* console lines that are an affirmative answer / a readiness signal
AffirmativeLines == {"Da", "da", "y", "yes", "d_ru"}
ReadyLines == {"gotovo", "done", " Done ", "ok", "prodolzhaj", "go", "yes", "da"}

\* what the driver answered
ResultBody(cr) == cr.content[1].value
AmbiguousResult(cr) ==
  cr.kind = "result" /\ Get(ResultBody(cr), "error", "") = ErrAmbiguous
NavigatedResult(cr) ==
  cr.kind = "result" /\ Get(ResultBody(cr), "page_navigated", FALSE)
SuccessResult(cr) ==
  cr.kind = "result" /\ Get(ResultBody(cr), "success", FALSE)

\* the last message of the history is the tool result of call id
LastIsToolResult(hist, id) ==
  /\ hist # <<>>
  /\ hist[Len(hist)].role = "tool"
  /\ hist[Len(hist)].tool_call_id = id

\* ------------------------------------------------------------------------
\* C1  Handover threshold: a browser request that the loop dispatches (it is
\* not held or declined at the confirmation gate) finds a count of at most
\* 3 for its key; when the count is 3 the request is not sent to the
\* browser and the loop waits for the human instead; when the count is
\* below 3 the request is sent to the browser.
\* ------------------------------------------------------------------------
C1_HandoverThreshold ==
  [][ ( /\ pc \in {"tool", "confirm"}
        /\ IsBrowserRequest(CurCall)
        /\ pc' # "confirm"
        /\ pc = "confirm" => line' \in AffirmativeLines )
      => /\ CountIn(action_failures, CurCall) <= MAX_SAME_ACTION_RETRIES
         /\ CountIn(action_failures, CurCall) = MAX_SAME_ACTION_RETRIES
              => (pc' = "handover" /\ call_result' = NoResult)
         /\ CountIn(action_failures, CurCall) < MAX_SAME_ACTION_RETRIES
              => pc' = "browser" ]_vars

\* a request whose key has failed 3 times is waiting for the human
C1_Witness ==
  /\ pc = "handover"
  /\ CountIn(action_failures, CurCall) = MAX_SAME_ACTION_RETRIES
  /\ call_result = NoResult

\* ------------------------------------------------------------------------
\* C2  Ambiguity is not a failure: when the driver answers a request with
\* the ambiguous outcome of click_element, the ledger is left exactly as it
\* was (and the loop does not turn to the human).
\* ------------------------------------------------------------------------
C2_AmbiguityNotCounted ==
  [][ (pc = "browser" /\ AmbiguousResult(call_result'))
      => (action_failures' = action_failures /\ pc' # "handover") ]_vars

\* an ambiguous outcome was tallied as a failed action, the ledger is empty
C2_Witness ==
  /\ AmbiguousResult(call_result)
  /\ failed_actions = 1
  /\ action_failures = EmptyDict

\* ------------------------------------------------------------------------
\* C3  Counters are per action key: the result of a request with key K, and
\* the handover of K, leave the count of every request with another key
\* (same tool with other arguments, or another tool) unchanged; no other
\* step of a task changes the ledger at all.
\* ------------------------------------------------------------------------
C3_PerKeyCounters ==
  [][ /\ pc \in {"browser", "handover"}
        => \/ action_failures' = action_failures
           \/ \A c \in CallShapes :
                ~SameRequest(c, CurCall)
                  => CountIn(action_failures', c) = CountIn(action_failures, c)
      /\ pc \notin {"browser", "handover", "read_task"}
        => action_failures' = action_failures ]_vars

\* two requests with different keys have each failed, one of them twice
C3_Witness ==
  \E c, d \in CallShapes :
    /\ ~SameRequest(c, d)
    /\ CountIn(action_failures, c) = 2
    /\ CountIn(action_failures, d) = 1

\* ------------------------------------------------------------------------
\* C4  Navigation skip: when call i returns an outcome that reports
\* page_navigated and calls remain after it, every remaining call gets a
\* failed "page changed" result in the history, in order, the tool loop is
\* left at once, and from the end of the step the loop only goes on to the
\* next decision request or to the final report (no remaining call runs).
\* ------------------------------------------------------------------------
C4_NavigationSkip ==
  [][ /\ (pc = "browser" /\ NavigatedResult(call_result') /\ i < Len(msg.tool_calls))
        => /\ pc' = "step_end"
           /\ msg' = msg
           /\ Len(messages') = Len(messages) + 1 + (Len(msg.tool_calls) - i)
           /\ \A j \in (i + 1)..Len(msg.tool_calls) :
                LET m == messages'[Len(messages) + 1 + (j - i)]
                IN /\ m.role = "tool"
                   /\ m.tool_call_id = msg.tool_calls[j].id
                   /\ m.content.success = FALSE
                   /\ m.content.error = SkipMsg
      /\ pc = "step_end" => pc' \in {"llm", "read_task"} ]_vars

\* the step is over although a call after the navigating one was listed
C4_Witness ==
  /\ pc = "step_end"
  /\ NavigatedResult(call_result)
  /\ i < Len(msg.tool_calls)
  /\ messages[Len(messages)].content.error = SkipMsg

\* ------------------------------------------------------------------------
\* C5  Sensitive-action gate: a sensitive click reaches the browser or the
\* human handover only from the confirmation prompt and only on an
\* affirmative answer; on every other answer the request gets a failed
\* result in the history, the driver is not called, the ledger is left
\* unchanged and the loop goes on with the next call.
\* ------------------------------------------------------------------------
C5_SensitiveGate ==
  [][ /\ ( /\ pc' \in {"browser", "handover"}
           /\ pc' # pc
           /\ IsSensitiveRequest(msg'.tool_calls[i']) )
        => (pc = "confirm" /\ line' \in AffirmativeLines)
      /\ (pc = "tool" /\ IsSensitiveRequest(CurCall)) => pc' = "confirm"
      /\ (pc = "confirm" /\ line' \notin AffirmativeLines)
        => /\ pc' \in {"tool", "step_end"}
           /\ call_result' = NoResult
           /\ action_failures' = action_failures
           /\ Len(messages') = Len(messages) + 1
           /\ LastIsToolResult(messages', CurCall.id)
           /\ messages'[Len(messages')].content.success = FALSE ]_vars

\* an answer that is neither yes nor no declined the sensitive click
C5_Witness ==
  /\ pc \in {"tool", "step_end"}
  /\ line = "gotovo"
  /\ IsSensitiveRequest(msg.tool_calls[IF pc = "tool" THEN i - 1 ELSE i])
  /\ call_result = NoResult
  /\ messages[Len(messages)].content = DeclinedPayload

\* ------------------------------------------------------------------------
\* C6  Ledger reset on success: after a browser action with key K succeeds
\* the count of K is 0.
\* ------------------------------------------------------------------------
C6_ResetOnSuccess ==
  [][ (pc = "browser" /\ SuccessResult(call_result'))
      => CountIn(action_failures', CurCall) = 0 ]_vars

\* ------------------------------------------------------------------------
\* C7  Handover resumption: while the loop waits in the handover the driver
\* is not called; a line that is no readiness signal leaves the loop
\* waiting with nothing changed; a readiness signal records a successful
\* result carrying the completed-manually note for that call and leaves the
\* count of its key at 0.
\* ------------------------------------------------------------------------
C7_HandoverResumption ==
  [][ pc = "handover"
      => /\ call_result' = NoResult
         /\ pc' # "browser"
         /\ line' \notin ReadyLines
              => /\ pc' = "handover"
                 /\ messages' = messages
                 /\ action_failures' = action_failures
                 /\ i' = i
         /\ line' \in ReadyLines
              => /\ pc' \in {"tool", "step_end"}
                 /\ Len(messages') = Len(messages) + 1
                 /\ LastIsToolResult(messages', CurCall.id)
                 /\ messages'[Len(messages')].content.success = TRUE
                 /\ messages'[Len(messages')].content.message = ManualNote
                 /\ CountIn(action_failures', CurCall) = 0 ]_vars

\* the handover of a request is over: manual note recorded, count back at 0
C7_Witness ==
  /\ pc \in {"tool", "step_end"}
  /\ payload = HandoverPayload
  /\ line \in ReadyLines
  /\ call_result = NoResult
  /\ CountIn(action_failures, msg.tool_calls[IF pc = "tool" THEN i - 1 ELSE i]) = 0
  /\ failed_actions >= MAX_SAME_ACTION_RETRIES

\* ------------------------------------------------------------------------
\* C8  Finish ends the task: once finish_task has been executed no further
\* tool call of the task is executed and no further decision is requested.
\* ------------------------------------------------------------------------
C8_FinishEndsTask ==
  done => pc \notin {"confirm", "browser", "wait_user", "handover", "llm"}

\* ------------------------------------------------------------------------
\* C9  Model-service faults abort immediately: when the decision request of
\* a step timed out or raised, the task is over at that step (the loop is
\* back at the task prompt), no decision and no tool result was recorded in
\* that step, the driver was not called, and the final report printed the
\* abort message.
\* ------------------------------------------------------------------------
C9_ModelFaultAborts ==
  resp \in {"timeout", "error"}
    => /\ pc = "read_task"
       /\ msg = NoMsg
       /\ messages = <<>>
       /\ call_result = NoResult
       /\ report.kind = "last_reply"
       /\ report.text = (IF resp = "timeout"
                           THEN "Tajmaut LLM. Zadacha ne zavershena."
                           ELSE "Oshibka LLM. Zadacha ne vypolnena.")

\* the decision request of the second step failed after a first step
C9_Witness ==
  /\ resp = "timeout"
  /\ step_used = 2
  /\ report.kind = "last_reply"

\* ------------------------------------------------------------------------
\* C10  Browser-driver transport faults are fatal: when the call that
\* carries a request to the driver raised, the task is over (it is not
\* continued with the next call or step).
\* ------------------------------------------------------------------------
C10_TransportFatal ==
  call_result.kind = "raise" => pc = "read_task"

\* ------------------------------------------------------------------------
\* C11  Step-limit exhaustion is reported: when a task is over after all
\* max_steps decisions were received and no finish_task was executed, the
\* final report is the step-limit message, whatever the model said.
\* ------------------------------------------------------------------------
C11_StepLimitReported ==
  ( /\ pc = "read_task"
    /\ report # NoReport
    /\ resp = "ok"
    /\ ~done
    /\ step_used >= max_steps )
  => report.kind = "step_limit"

\* an empty decision or a decision with text
IsEmptyDecision(m) == m.content = NoContent /\ m.tool_calls = <<>>

\* the history ends with the corrective instruction of the empty-decision
\* protocol
EndsWithEmptyHint(hist) ==
  /\ hist # <<>>
  /\ hist[Len(hist)].role = "user"
  /\ hist[Len(hist)].content = EmptyHint

\* ------------------------------------------------------------------------
\* C12  Empty-decision protocol: the corrective instruction is appended to
\* the history exactly when an empty decision (no text, no tool calls)
\* arrives right after another empty decision that did not itself cause
\* an injection; a first empty decision appends only itself; a decision
\* with text or tool calls leaves the counter at 0; the counter is 0 right
\* after an injection, and it is 0 or 1 whenever a step is over; between
\* two steps the counter is 1 only if the decision of the step that ended
\* was empty.
\* ------------------------------------------------------------------------
C12_EmptyDecisionProtocol ==
  [][ /\ (pc = "llm" /\ resp' = "ok")
        => /\ EndsWithEmptyHint(messages')
                <=> (IsEmptyDecision(msg') /\ empty_responses = 1)
           /\ (IsEmptyDecision(msg') /\ empty_responses = 0)
                => (messages' = Append(messages, AssistantMessage(msg'))
                    /\ empty_responses' = 1)
           /\ ~IsEmptyDecision(msg') => empty_responses' = 0
           /\ EndsWithEmptyHint(messages') => empty_responses' = 0
           /\ empty_responses' \in {0, 1}
      /\ (pc = "step_end" /\ pc' = "llm" /\ empty_responses' = 1)
        => IsEmptyDecision(msg)
      /\ pc # "llm" => empty_responses' = empty_responses
         \/ pc = "read_task" ]_vars

\* the second empty decision in a row was answered with the instruction
C12_Witness ==
  /\ pc = "step_end"
  /\ step_used = 2
  /\ IsEmptyDecision(msg)
  /\ EndsWithEmptyHint(messages)
  /\ empty_responses = 0

\* tools that only read the page
ReadOnlyTools == {"get_page_content", "extract_elements"}

\* ------------------------------------------------------------------------
\* C19  Read-only actions stay out of the ledger: the result of a request
\* for a read-only tool never creates or increments a ledger entry.
\* ------------------------------------------------------------------------
C19_ReadOnlyOutOfLedger ==
  [][ (pc = "browser" /\ CurCall.name \in ReadOnlyTools)
      => action_failures' = action_failures ]_vars

\* ------------------------------------------------------------------------
\* C20  Every recorded result has a boolean success field: a result the
\* driver flags as an error is recorded with success = false and is
\* counted as a failed action by the ledger and by the failure tally.
\* ------------------------------------------------------------------------
C20_ErrorResultIsFailure ==
  [][ (pc = "browser" /\ call_result'.kind = "result" /\ call_result'.isError)
      => /\ "success" \in DOMAIN payload'
         /\ payload'.success = FALSE
         /\ failed_actions' = failed_actions + 1
         /\ CountIn(action_failures', CurCall)
              = CountIn(action_failures, CurCall) + 1 ]_vars

\* ------------------------------------------------------------------------
\* Properties of click_element
\* ------------------------------------------------------------------------
\* the call the driver handled is a click by text alone
IsTextClick(args) ==
  /\ args # NoArgs
  /\ args.tool = "click_element"
  /\ args.selector = NoSel
  /\ args.text # <<>>

\* the canonical form of a text: white space of any kind collapsed to
\* single spaces, none at the ends
Canonical(s) == join(split(s))

\* the canonical, case-folded form
Folded(s) == toLowerCase(Canonical(s))

\* the clickable elements of a page without dialog whose label is t
SameLabel(doc, t) ==
  SelectSeq(Positions(Len(doc)),
            LAMBDA k : doc[k].tag \in {"a", "button"} /\ Folded(doc[k].text) = Folded(t))

\* the clickable elements of a page without dialog whose label contains t
ContainsLabel(doc, t) ==
  SelectSeq(Positions(Len(doc)),
            LAMBDA k : doc[k].tag \in {"a", "button"}
                       /\ Includes(Folded(doc[k].text), Folded(t)))

ClickedTargets(evs) == {evs[n].target : n \in {m \in 1..Len(evs) : evs[m].type = "click"}}

IsAmbiguousResult(res) == ~res.success /\ res.error = ErrAmbiguousClick

\* C13: on a page without dialog, a click by a text of two characters at
\* least for which exactly one clickable element has a label equal to the
\* normalized, case-folded request selects that element, whatever other
\* clickable elements contain the request
C13_ExactMatchWins ==
  [][ (/\ IsTextClick(tool_args')
       /\ dialogs = <<>>
       /\ Len(Folded(tool_args'.text)) >= 2
       /\ Len(SameLabel(document, tool_args'.text)) = 1)
      => ClickedTargets(events') = {SameLabel(document, tool_args'.text)[1]} ]_vars

\* C15: on a page without dialog with exactly two clickable elements of
\* the same label, of at most two words and two characters at least, and no
\* other that contains it, a click by that label returns ambiguous with
\* count 2 and clicks nothing
C15_TwoCandidatesAmbiguous ==
  [][ (/\ IsTextClick(tool_args')
       /\ dialogs = <<>>
       /\ WordCount(Canonical(tool_args'.text)) <= 2
       /\ Len(Folded(tool_args'.text)) >= 2
       /\ Len(SameLabel(document, tool_args'.text)) = 2
       /\ Len(ContainsLabel(document, tool_args'.text)) = 2)
      => (/\ IsAmbiguousResult(tool_result')
          /\ tool_result'.count = 2
          /\ events' = <<>>) ]_vars

\* the precondition of the ambiguity rule: n clickable elements, three at
\* least, carry the requested label of at most two words
ManySameLabel(doc, dlgs, args) ==
  /\ IsTextClick(args)
  /\ dlgs = <<>>
  /\ WordCount(Canonical(args.text)) <= 2
  /\ Len(SameLabel(doc, args.text)) >= 3

C16_NormalizationInvariance ==
  [][ (tool_args' # NoArgs /\ tool_args'.tool = "click_element")
      => \A t \in ClickTexts \ {tool_args'.text} :
           (tool_args'.text # <<>> /\ Canonical(t) = Canonical(tool_args'.text))
           => \E r \in {click_element(document, dialogs,
                                      [tool_args' EXCEPT !.text = t])} :
                r.result = tool_result' /\ r.events = events' ]_vars

\* a request written with a no-break space and a newline inside clicked an
\* element
C16_Witness ==
  /\ IsTextClick(tool_args)
  /\ tool_args.text # Canonical(tool_args.text)
  /\ HasWhite(Canonical(tool_args.text))
  /\ tool_result.success
  /\ events # <<>>

\* the controls of dialog d whose label is t, in document order
DialogControls(doc, d, t) ==
  SelectSeq(DialogElements(doc, d),
            LAMBDA k : doc[k].tag \in {"a", "button"} /\ Folded(doc[k].text) = Folded(t))

\* a click by text while a dialog is active, for a label a control of the
\* dialog carries
DialogControlClick(doc, dlgs, args) ==
  /\ IsTextClick(args)
  /\ get_dialog_locator(dlgs) # NoDialog
  /\ DialogControls(doc, get_dialog_locator(dlgs), args.text) # <<>>

FirstControl(doc, dlgs, args) ==
  DialogControls(doc, get_dialog_locator(dlgs), args.text)[1]

\* C17: while a dialog is active, a click by text whose matching control
\* (the first of that label) is disabled or hidden fails with a failure
\* that is not a not-found, carries the guidance to satisfy a precondition
\* first and dispatches no click; once the control is enabled the same
\* request clicks it and succeeds
C17_DisabledControl ==
  [][ DialogControlClick(document, dialogs, tool_args')
      => IF document[FirstControl(document, dialogs, tool_args')].state # "enabled"
           THEN /\ ~tool_result'.success
                /\ tool_result'.error = ErrDisabled
                /\ tool_result'.error \notin {ErrNotFound, ErrNotFoundInDialog, ErrNotInModal}
                /\ tool_result'.suggestion = SuggestPrecondition
                /\ events' = <<>>
           ELSE /\ tool_result'.success
                /\ events' = <<ClickEvent(FirstControl(document, dialogs, tool_args'), FALSE)>> ]_vars

\* the button of the dialog, disabled at first, was enabled by the choice
\* of the radio option and has been clicked
C17_Witness ==
  /\ DialogControlClick(document, dialogs, tool_args)
  /\ tool_result.success
  /\ \E k \in 1..Len(document) :
       /\ events = <<ClickEvent(k, FALSE)>>
       /\ document[k].tag = "button"
       /\ document[k].state = "enabled"
       /\ document[k].dlg # NoDialog
  /\ \E k \in 1..Len(document) : document[k].tag \in {"radio", "label"}

\* ------------------------------------------------------------------------
\* Properties of type_text
\* ------------------------------------------------------------------------
\* the displayed fillable fields of dialog d (0: of the whole page), in
\* document order
FieldsOf(doc, d) ==
  SelectSeq(Positions(Len(doc)),
            LAMBDA k : /\ doc[k].tag \in {"input", "textarea"}
                       /\ doc[k].state # "hidden"
                       /\ d # NoDialog => doc[k].dlg = d)

\* those of them that have placeholder p
FieldsWith(doc, d, p) ==
  SelectSeq(FieldsOf(doc, d),
            LAMBDA k : doc[k].label # <<>> /\ Includes(Folded(doc[k].label), Folded(p)))

\* a type_text call while a dialog is active that names a field by its
\* index alone (by_index) or by its placeholder alone
IsFieldCall(dlgs, args, by_index) ==
  /\ args # NoArgs
  /\ args.tool = "type_text"
  /\ args.selector = NoSel
  /\ get_dialog_locator(dlgs) # NoDialog
  /\ IF by_index
       THEN args.has_index /\ args.field_index >= 1 /\ Canonical(args.placeholder) = <<>>
       ELSE ~args.has_index /\ Canonical(args.placeholder) # <<>>

\* element n of found, if it has one
OnlyNth(found, n) == IF n >= 1 /\ n <= Len(found) THEN <<found[n]>> ELSE <<>>

\* the call filled exactly the first field of found, when found has one
FillsFirst(found, res, evs) ==
  found # <<>> => (res.success /\ evs = <<FillEvent(found[1])>>)

\* C18: while a dialog is active, a field_index beyond the displayed fields
\* of the dialog, or a placeholder none of them has, is resolved against the
\* whole page (the field_index-th field of the page, the first page field
\* of that placeholder, is filled); an index or a placeholder the dialog
\* has is resolved inside the dialog
C18_FillFallback ==
  [][ LET d == get_dialog_locator(dialogs)
          n == tool_args'.field_index
          p == tool_args'.placeholder
      IN /\ IsFieldCall(dialogs, tool_args', TRUE)
            => IF n > Len(FieldsOf(document, d))
                 THEN FillsFirst(OnlyNth(FieldsOf(document, NoDialog), n),
                                 tool_result', events')
                 ELSE FillsFirst(OnlyNth(FieldsOf(document, d), n),
                                 tool_result', events')
         /\ IsFieldCall(dialogs, tool_args', FALSE)
            => IF FieldsWith(document, d, p) = <<>>
                 THEN FillsFirst(FieldsWith(document, NoDialog, p),
                                 tool_result', events')
                 ELSE FillsFirst(FieldsWith(document, d, p),
                                 tool_result', events') ]_vars

\* a type_text call whose field_index, when given, is a valid 1-based index
IsTypeCall(args) ==
  /\ args # NoArgs
  /\ args.tool = "type_text"
  /\ args.has_index => args.field_index >= 1

\* the elements of scope d (0: the page) that satisfy test, in document order
InScopeWhere(doc, d, test(_)) ==
  SelectSeq(Positions(Len(doc)),
            LAMBDA k : (d # NoDialog => doc[k].dlg = d) /\ test(doc[k]))

\* the field the priority order names for a call in scope d: selector, else
\* placeholder, else index over the displayed fields, else a displayed
\* textarea for a long text, else the first displayed field (at most one
\* element)
PriorityTarget(doc, d, args) ==
  LET bySelector == InScopeWhere(doc, d, LAMBDA e : e.tag = args.selector.tag)
      byPlaceholder ==
        InScopeWhere(doc, d,
          LAMBDA e : /\ e.tag \in {"input", "textarea"}
                     /\ e.label # <<>>
                     /\ Includes(Folded(e.label), Folded(args.placeholder)))
      textareas == InScopeWhere(doc, d, LAMBDA e : e.tag = "textarea" /\ e.state # "hidden")
  IN IF args.selector # NoSel THEN OnlyNth(bySelector, 1)
     ELSE IF Canonical(args.placeholder) # <<>> THEN OnlyNth(byPlaceholder, 1)
     ELSE IF args.has_index THEN OnlyNth(FieldsOf(doc, d), args.field_index)
     ELSE IF Len(args.text) > 80 /\ textareas # <<>> THEN OnlyNth(textareas, 1)
     ELSE OnlyNth(FieldsOf(doc, d), 1)

\* position k can take a fill: a displayed, enabled field
CanFill(doc, k) ==
  doc[k].tag \in {"input", "textarea"} /\ doc[k].state = "enabled"

\* C21: type_text fills the field the priority order names in the resolved
\* scope (selector, placeholder, 1-based field_index, textarea for a long
\* text, first field) and nothing else, in one attempt: one fill event when
\* that field can take it, none and a failure otherwise
C21_FillPriority ==
  [][ IsTypeCall(tool_args')
      => \E tgt \in {PriorityTarget(document,
                       FillScope(document, dialogs,
                                 normalize_text(tool_args'.placeholder),
                                 tool_args'.has_index, tool_args'.field_index),
                       tool_args')} :
           IF tgt # <<>> /\ CanFill(document, tgt[1])
             THEN tool_result'.success /\ events' = <<FillEvent(tgt[1])>>
             ELSE ~tool_result'.success /\ events' = <<>> ]_vars

\* a call that gave a placeholder and field_index 1 filled the field of that
\* placeholder, which is not the first field of the dialog
C21_Witness ==
  /\ IsTypeCall(tool_args)
  /\ tool_args.has_index
  /\ Canonical(tool_args.placeholder) # <<>>
  /\ tool_result.success
  /\ Len(events) = 1
  /\ events[1].type = "fill"
  /\ events[1].target > 1
  /\ document[1].tag \in {"input", "textarea"}
  /\ document[1].state = "enabled"
  /\ document[1].dlg # NoDialog

\* ------------------------------------------------------------------------
\* Termination of a task
\* ------------------------------------------------------------------------
TaskRunning == pc \notin {"read_task", "exit"}
TaskOver == pc = "read_task" /\ report # NoReport

\* the ways a task may end: finish_task was executed, the decision request
\* failed, or all max_steps decisions were used
EndedByCause ==
  \/ done
  \/ resp \in {"timeout", "error"}
  \/ step_used >= max_steps

\* C22: when every awaited call returns, every task terminates; it requests
\* at most max_steps decisions, and it ends only because it is done, because
\* the decision request failed, or because the steps are used up
C22_TaskTerminates ==
  /\ [](step_used <= max_steps)
  /\ [](TaskOver => EndedByCause)
  /\ (TaskRunning ~> TaskOver)

\* a task is over at the step limit after a step in which a browser call
\* failed, a call was declined or handed over
C22_Witness ==
  /\ TaskOver
  /\ ~done
  /\ resp = "ok"
  /\ step_used = max_steps
  /\ failed_actions > 0

\* the buttons and links of scope d whose label satisfies test
ScopeButtons(doc, d, test(_)) ==
  SelectSeq(Positions(Len(doc)),
            LAMBDA k : /\ doc[k].dlg = d
                       /\ doc[k].tag \in {"a", "button"}
                       /\ test(Folded(doc[k].text)))

\* C23: a click by text while a dialog-like element is visible is matched
\* inside the first visible one, the element the scope resolver returns:
\* nothing outside it is clicked, and when exactly one button of it carries
\* or contains the requested label, that button is clicked, whether the
\* scope is a dialog, an alertdialog or an aria-modal element
C23_OneDialogScope ==
  [][ (IsTextClick(tool_args') /\ get_dialog_locator(dialogs) # NoDialog)
      => \E s \in {get_dialog_locator(dialogs)} :
           /\ \A k \in ClickedTargets(events') : document[k].dlg = s
           /\ (/\ Len(ScopeButtons(document, s,
                        LAMBDA c : c = Folded(tool_args'.text))) = 1
               /\ Len(ScopeButtons(document, s,
                        LAMBDA c : Includes(c, Folded(tool_args'.text)))) = 1)
              => ClickedTargets(events')
                   = {ScopeButtons(document, s,
                        LAMBDA c : c = Folded(tool_args'.text))[1]} ]_vars

\* C24: in the one visible dialog of a page, a click by a label of at most
\* two words and two characters at least that several buttons of the dialog
\* carry, and that no other button of it contains, returns ambiguous and
\* clicks nothing
C24_DialogAmbiguity ==
  [][ (/\ IsTextClick(tool_args')
       /\ dialogs = <<OpenDialog>>
       /\ WordCount(Canonical(tool_args'.text)) <= 2
       /\ Len(Folded(tool_args'.text)) >= 2
       /\ \E n \in {Len(ScopeButtons(document, 1,
                           LAMBDA c : c = Folded(tool_args'.text)))} :
             /\ n >= 2
             /\ n = Len(ScopeButtons(document, 1,
                           LAMBDA c : Includes(c, Folded(tool_args'.text)))))
      => (IsAmbiguousResult(tool_result') /\ events' = <<>>) ]_vars

\* a click call whose selector names an element
IsSelectorClick(args) ==
  /\ args # NoArgs
  /\ args.tool = "click_element"
  /\ args.selector.tag # ""

\* position k is displayed and enabled
CanClick(doc, dlgs, k) ==
  /\ doc[k].state = "enabled"
  /\ doc[k].dlg # NoDialog => dlgs[doc[k].dlg].visible

\* C25: a click call whose selector names an element is decided by the
\* selector alone: the first element of the scope that matches it, when
\* displayed and enabled, is clicked and the call succeeds, whatever text
\* the call carries and whether or not that text occurs in the scope
C25_SelectorAlone ==
  [][ IsSelectorClick(tool_args')
      => \E found \in {InScopeWhere(document, get_dialog_locator(dialogs),
                                     LAMBDA e : e.tag = tool_args'.selector.tag)} :
           (found # <<>> /\ CanClick(document, dialogs, found[1]))
             => (tool_result'.success /\ ClickedTargets(events') = {found[1]}) ]_vars

\* the search strings of a request: the text, for a text of more than 20
\* characters its first five and first three words, for a text with white
\* space its form without white space
SearchStrings(t) ==
  <<t>> \o (IF Len(t) > 20 THEN <<firstWords(t, 5), firstWords(t, 3)>> ELSE <<>>)
        \o (IF HasWhite(t) THEN <<collapseSpaces(t)>> ELSE <<>>)

\* the search strings of two characters at least that have a clickable
\* candidate on the page, in order
StringsWithCandidate(doc, t) ==
  SelectSeq(SearchStrings(t),
            LAMBDA p : Len(p) >= 2 /\ collectAllMatchesWithEl(doc, p) # <<>>)

\* C26: on a page without dialog-like elements, when some search string of
\* a click by text has a clickable candidate, the click goes to a candidate
\* of the first such search string or to nothing; elements found by the
\* scan over arbitrary elements are not clicked
C26_PartsBeforeFallback ==
  [][ (IsTextClick(tool_args') /\ dialogs = <<>>)
      => \E ps \in {StringsWithCandidate(document,
                       toLowerCase(trim(normalize_text(tool_args'.text))))} :
           ps # <<>>
             => \A k \in ClickedTargets(events') :
                  \E n \in 1..Len(collectAllMatchesWithEl(document, ps[1])) :
                     collectAllMatchesWithEl(document, ps[1])[n] = k ]_vars

IsClickCall(args) == args # NoArgs /\ args.tool = "click_element"

\* the result says the forced variant was used
ForceUsed(res) == "force_used" \in DOMAIN res /\ res.force_used

\* C27: a click_element call dispatches at most one click and always
\* returns a result.  The click is the forced one exactly when the result
\* carries force_used, and then the call succeeded on an element the plain
\* attempt could not click.  For a call by selector alone: a first match
\* that is displayed and enabled is clicked plainly; one that is displayed
\* but disabled is clicked by the forced retry; with no match or a match that
\* is not displayed both attempts fail and the call returns a failure
\* without a click
C27_ForcedRetryOnce ==
  [][ IsClickCall(tool_args')
      => /\ Len(events') <= 1
         /\ "success" \in DOMAIN tool_result'
         /\ ForceUsed(tool_result') <=> (events' # <<>> /\ events'[1].force)
         /\ ForceUsed(tool_result')
              => (/\ tool_result'.success
                  /\ ~CanClick(document, dialogs, events'[1].target))
         /\ (/\ IsSelectorClick(tool_args')
             /\ tool_args'.selector.root = ""
             /\ tool_args'.text = <<>>)
            => \E found \in {InScopeWhere(document, get_dialog_locator(dialogs),
                                 LAMBDA e : e.tag = tool_args'.selector.tag)} :
                 IF found # <<>> /\ CanClick(document, dialogs, found[1])
                   THEN /\ tool_result'.success
                        /\ ~ForceUsed(tool_result')
                        /\ ClickedTargets(events') = {found[1]}
                 ELSE IF found # <<>> /\ document[found[1]].state = "disabled"
                   THEN /\ tool_result'.success
                        /\ ForceUsed(tool_result')
                        /\ ClickedTargets(events') = {found[1]}
                 ELSE ~tool_result'.success /\ events' = <<>> ]_vars

\* a selector call went through on its forced retry
C27_Witness ==
  /\ IsSelectorClick(tool_args)
  /\ ForceUsed(tool_result)
  /\ Len(events) = 1
  /\ events[1].force

UrlChanged(name, pl) ==
  /\ Get(pl, "success", FALSE) = TRUE
  /\ \/ Get(pl, "page_navigated", FALSE) = TRUE
     \/ name = "go_back" /\ Get(pl, "url", "same") = "other"

\* C29: while a call of a step is at the browser driver, no earlier call of
\* that step (navigate, click_element or go_back) has returned a result
\* that tells of another URL
C29_NoCallOnReplacedPage ==
  pc = "browser"
    => \A n \in 1..Len(messages) :
         messages[n].role = "tool"
           => ~UrlChanged(msg.tool_calls[messages[n].tool_call_id].name,
                          messages[n].content)

\* the ids of the tool results in ms, in order
ToolIds(ms) ==
  LET ts == SelectSeq(ms, LAMBDA m : m.role = "tool")
  IN [k \in 1..Len(ts) |-> ts[k].tool_call_id]

\* the ids of the calls a decision lists, in order
ListedIds(m) == [k \in 1..Len(m.tool_calls) |-> m.tool_calls[k].id]

\* run_agent is inside the iteration for call i
InCall == pc \in {"tool", "confirm", "browser", "wait_user", "handover"}

\* C30: while call i of a decision is processed the history holds, after
\* the decision, one tool result for each of the calls 1..i-1, in the order
\* listed; when the step is over it holds one for every listed call, in
\* order, whether the call was executed, declined, handed over or skipped;
\* no decision is requested from inside the tool loop
C30_WellFormedHistory ==
  /\ [](InCall => ToolIds(messages) = SubSeq(ListedIds(msg), 1, i - 1))
  /\ []((pc = "step_end" /\ msg # NoMsg /\ msg.tool_calls # <<>>)
          => ToolIds(messages) = ListedIds(msg))
  /\ [][InCall => pc' # "llm"]_vars

\* a step is over whose first call was declined and whose second call
\* returned from the driver
C30_Witness ==
  /\ pc = "step_end"
  /\ msg # NoMsg
  /\ Len(msg.tool_calls) = 2
  /\ ToolIds(messages) = <<1, 2>>
  /\ messages[Len(messages) - 1].content = DeclinedPayload
  /\ call_result # NoResult
  /\ messages[Len(messages)].content = payload

==========================================================================
